---- MODULE Spec2Model ----
(***************************************************************************)
(* Model of the gold linked-data server: resource addressing (pathInfo),   *)
(* the Web Access Control engine (WAC.allow) and the HTTP verb handlers of *)
(* Server.handle, over a small file store.                                 *)
(*                                                                         *)
(* A path string is kept as the result of strings.Split(path, "/"): a      *)
(* sequence of segments.  A segment is a sequence of tokens: a name        *)
(* followed by shadow suffixes, so that "dd/f.acl" is                      *)
(* << <<"dd">>, <<"f", ".acl">> >> , "dd/" is << <<"dd">>, <<>> >> and the *)
(* empty string is << <<>> >>.                                             *)
(***************************************************************************)
EXTENDS Integers, Sequences, FiniteSets, TLC

\* fs: the file store under the data root; web: the remote documents
\* Graph.LoadURI can fetch; req: the call or request last made; resp: its
\* answer; nw: the number of requests served so far
VARIABLES fs, web, req, resp, nw

vars == <<fs, web, req, resp, nw>>

----------------------------------------------------------------------------
(* Strings                                                                 *)

ACLSuffix == ".acl"
METASuffix == ".meta"

\* len() of one token of a segment
TokLen(t) ==
  CASE t = "dd" -> 2
    [] t = "f" -> 1
    [] t = "." -> 1
    [] t = ACLSuffix -> 4
    [] t = METASuffix -> 5
    [] OTHER -> 3

RECURSIVE SumTok(_)
SumTok(s) == IF s = <<>> THEN 0 ELSE TokLen(Head(s)) + SumTok(Tail(s))

RECURSIVE SumSeg(_)
SumSeg(p) == IF p = <<>> THEN 0 ELSE SumTok(Head(p)) + SumSeg(Tail(p))

\* len(path): the characters of the segments plus one "/" between them
StrLen(p) == SumSeg(p) + Len(p) - 1

EmptyStr == << <<>> >>

\* strings.HasSuffix(path, "/")
HasSuffixSlash(p) == Len(p) > 1 /\ p[Len(p)] = <<>>

\* strings.HasSuffix(path, suffix) for a shadow suffix
HasSuffix(p, sfx) ==
  LET l == p[Len(p)] IN l # <<>> /\ l[Len(l)] = sfx

\* path + "/"
AddSlash(p) == p \o << <<>> >>

\* path + suffix
AddSuffix(p, sfx) == [p EXCEPT ![Len(p)] = @ \o <<sfx>>]

Front(s) == SubSeq(s, 1, Len(s) - 1)

IsRealSeg(s) == s # <<>> /\ s # <<".">>

\* filepath.Clean of a relative path without ".." elements
Clean(p) ==
  LET c == SelectSeq(p, IsRealSeg) IN IF c = <<>> THEN << <<".">> >> ELSE c

\* filepath.Dir: everything before the last separator, cleaned
Dir(p) == Clean(Front(p))

\* brack / debrack and the String() form of a resource term
brack(s) == <<"<", s, ">">>
debrack(t) == IF Len(t) = 3 /\ t[1] = "<" /\ t[3] = ">" THEN t[2] ELSE t
NewResource(u) == <<"<", u, ">">>
TermString(t) == t

----------------------------------------------------------------------------
(* File store                                                              *)

\* the node of the store a path string names (the kernel drops empty and
\* "." elements)
NodeOf(p) == SelectSeq(p, IsRealSeg)

\* the path ends in a separator or in "."; it can then only name a directory
WantsDir(p) == Len(p) > 0 /\ (HasSuffixSlash(p) \/ p[Len(p)] = <<".">>)

IsDirNode(F, n) == n \in DOMAIN F /\ F[n].k = "dir"
IsFileNode(F, n) == n \in DOMAIN F /\ F[n].k = "file"

\* a proper prefix of the node is a regular file
ThroughFile(F, n) ==
  \E i \in 1..(Len(n) - 1) : IsFileNode(F, SubSeq(n, 1, i))

\* os.Stat(root + path): "dir", "file", "ENOENT" or "ENOTDIR"
Stat(F, p) ==
  LET n == NodeOf(p) IN
  IF ThroughFile(F, n) THEN "ENOTDIR"
  ELSE IF n \notin DOMAIN F THEN "ENOENT"
  ELSE IF F[n].k = "file" /\ WantsDir(p) THEN "ENOTDIR"
  ELSE F[n].k

\* Graph.ReadFile: the triples of a stored RDF document, none when the
\* file is absent, a directory or not parseable
ReadFile(F, p) ==
  LET n == NodeOf(p) IN
  IF Stat(F, p) = "file" /\ ~F[n].raw THEN F[n].g ELSE {}

nil == "nil"

\* Graph.All(s, p, o): the triples matching a pattern, nil matching any term
All(g, s, p, o) ==
  {t \in g : /\ (s = nil \/ t[1] = s)
             /\ (p = nil \/ t[2] = p)
             /\ (o = nil \/ t[3] = o)}

----------------------------------------------------------------------------
(* pathInfo                                                                *)

Base == "https://localhost"

\* the absolute URI Base + "/" + path
URIOf(p) == <<Base, p>>

\* part_002:1445-1461: the ACL and meta shadows of the canonical path pth
AclShadow(pth) ==
  IF HasSuffix(pth, ACLSuffix) THEN pth ELSE AddSuffix(pth, ACLSuffix)

MetaShadow(pth) ==
  IF HasSuffix(pth, ACLSuffix) \/ HasSuffix(pth, METASuffix)
  THEN pth ELSE AddSuffix(pth, METASuffix)

\* part_002:1430-1461: the record built for the canonical path pth, st the
\* answer of os.Stat
infoOf(pth, st) ==
  [URI |-> URIOf(pth), Path |-> pth, File |-> pth,
   AclURI |-> URIOf(AclShadow(pth)), AclFile |-> AclShadow(pth),
   MetaURI |-> URIOf(MetaShadow(pth)), MetaFile |-> MetaShadow(pth),
   Exists |-> st # "ENOENT", panic |-> st = "ENOTDIR"]

\* part_002:1410-1412: strings.TrimLeft(p.Path, "/"), the path being what
\* follows the first "/" of the URL path
RECURSIVE TrimLeftSlash(_)
TrimLeftSlash(path) ==
  IF Len(path) > 1 /\ Head(path) = <<>>
  THEN TrimLeftSlash(Tail(path)) ELSE path

\* part_002:1419-1422: a directory named without trailing slash gets one
Slashed(path, st) ==
  IF st = "dir" /\ ~HasSuffixSlash(path) /\ StrLen(path) > 1
  THEN AddSlash(path) ELSE path

\* Server.pathInfo for the URL base + "/" + path (no vhosts); panic is the
\* nil dereference of stat.IsDir() when Stat fails with another error than
\* "not exist"
pathInfo(F, path) ==
  infoOf(Slashed(TrimLeftSlash(path), Stat(F, path)), Stat(F, path))

----------------------------------------------------------------------------
(* Web Access Control                                                      *)

acl_mode == "acl:mode"
acl_accessTo == "acl:accessTo"
acl_defaultForNew == "acl:defaultForNew"
acl_agent == "acl:agent"
acl_agentClass == "acl:agentClass"
acl_owner == "acl:owner"
acl_origin == "acl:origin"
rdf_type == "rdf:type"
foaf_member == "foaf:member"
foaf_Agent == NewResource("foaf:Agent")
foaf_Group == NewResource("foaf:Group")

\* Graph.LoadURI: the graph a remote document dereferences to, empty when
\* the fetch fails
LoadURI(W, uri) == IF uri \in DOMAIN W THEN W[uri] ELSE {}

\* variant: the group document is not asked for its type
AgentMatches_untyped(g, W, S, user) ==
  \/ All(g, S, acl_owner, NewResource(user)) # {}
  \/ All(g, S, acl_agent, NewResource(user)) # {}
  \/ \E t \in All(g, S, acl_agentClass, nil) :
        \/ t[3] = foaf_Agent
        \/ LET groupURI == debrack(TermString(t[3]))
               groupGraph == LoadURI(W, groupURI)
           IN /\ Cardinality(groupGraph) > 0
              /\ All(groupGraph, t[3], foaf_member, NewResource(user)) # {}

\* part_002:62-87 and 109-133: the owner, agent and agentClass tests made
\* for one rule subject
AgentMatches(g, W, S, user) ==
  \/ All(g, S, acl_owner, NewResource(user)) # {}
  \/ All(g, S, acl_agent, NewResource(user)) # {}
  \/ \E t \in All(g, S, acl_agentClass, nil) :
        \/ t[3] = foaf_Agent
        \/ LET groupURI == debrack(TermString(t[3]))
               groupGraph == LoadURI(W, groupURI)
           IN /\ Cardinality(groupGraph) > 0
              /\ All(groupGraph, t[3], rdf_type, foaf_Group) # {}
              /\ All(groupGraph, t[3], foaf_member, NewResource(user)) # {}

\* variant: the Control pass always reads acl:accessTo
ControlPass_accessTo(g, W, accessType, uri, user) ==
  \E i \in All(g, nil, acl_mode, NewResource("Control")) :
    /\ All(g, i[1], acl_accessTo, NewResource(uri)) # {}
    /\ AgentMatches(g, W, i[1], user)

\* part_002:60-89: a Control rule for the walked resource matches the user
ControlPass(g, W, accessType, uri, user) ==
  \E i \in All(g, nil, acl_mode, NewResource("Control")) :
    /\ All(g, i[1], accessType, NewResource(uri)) # {}
    /\ AgentMatches(g, W, i[1], user)

\* variant: the filter is applied to requests without Origin header too
OriginPasses_strict(g, S, origin) ==
  LET origins == All(g, S, acl_origin, nil) IN
  IF origins # {}
  THEN \E o \in origins : brack(origin) = TermString(o[3])
  ELSE TRUE

\* part_002:94-107: the rule is skipped when it lists origins, the request
\* has an Origin and none of the listed ones is the bracketed Origin
OriginPasses(g, S, origin) ==
  LET origins == All(g, S, acl_origin, nil) IN
  IF origin # "" /\ origins # {}
  THEN \E o \in origins : brack(origin) = TermString(o[3])
  ELSE TRUE

\* variant: the mode pass without the origin filter
ModePass_anyOrigin(g, W, accessType, uri, mode, user, origin) ==
  \E i \in All(g, nil, acl_mode, NewResource(mode)) :
    /\ All(g, i[1], accessType, NewResource(uri)) # {}
    /\ AgentMatches(g, W, i[1], user)

\* part_002:90-135: a rule for the requested mode matches the user
ModePass(g, W, accessType, uri, mode, user, origin) ==
  \E i \in All(g, nil, acl_mode, NewResource(mode)) :
    /\ All(g, i[1], accessType, NewResource(uri)) # {}
    /\ OriginPasses(g, i[1], origin)
    /\ AgentMatches(g, W, i[1], user)

\* part_002:158-178: the path of the next iteration
NextPath(i, p) ==
  IF i = 0
  THEN IF HasSuffixSlash(p.Path)
       THEN IF Dir(Dir(p.Path)) = << <<".">> >>
            THEN EmptyStr
            ELSE AddSlash(Dir(Dir(p.Path)))
       ELSE AddSlash(Dir(p.Path))
  ELSE IF Dir(Dir(p.Path)) = << <<".">> >>
       THEN EmptyStr
       ELSE AddSlash(Dir(Dir(p.Path)))

\* variant: the ascent goes on past an ACL that grants nothing
Stops_whenGranting(aclGraph, W, accessType, uri, mode, user, origin) ==
  /\ Cardinality(aclGraph) > 0
  /\ \/ ControlPass(aclGraph, W, accessType, uri, user)
     \/ ModePass(aclGraph, W, accessType, uri, mode, user, origin)

\* part_002:57: a non-empty ACL graph ends the ascent
Stops(aclGraph, W, accessType, uri, mode, user, origin) ==
  Cardinality(aclGraph) > 0

\* variant: every refusal is a 403
Refuse_forbidden(user) == [status |-> 403, www |-> FALSE]

\* part_002:136-153: the refusal, with a minted WWW-Authenticate challenge
\* (www) for an anonymous request
Refuse(user) ==
  IF user = ""
  THEN [status |-> 401, www |-> TRUE]
  ELSE [status |-> 403, www |-> FALSE]

\* part_002:58-153: the decision taken on the authoritative ACL graph
Decide(aclGraph, W, accessType, uri, mode, user, origin) ==
  IF \/ ControlPass(aclGraph, W, accessType, uri, user)
     \/ ModePass(aclGraph, W, accessType, uri, mode, user, origin)
  THEN [status |-> 200, www |-> FALSE]
  ELSE Refuse(user)

\* part_002:40: depth := strings.Split(p.Path, "/")
Depth(p) == Len(p.Path)

\* variant: a resource without policies is closed
NoPolicy_closed == [status |-> 403, www |-> FALSE]

\* part_002:180-181: no ACL policies present
NoPolicy == [status |-> 200, www |-> FALSE]

\* the loop of WAC.allow from iteration i on
RECURSIVE allowLoop(_, _, _, _, _, _, _, _, _)
allowLoop(F, W, mode, user, origin, i, n, path, accessType) ==
  IF i >= n THEN NoPolicy
  ELSE
    LET p == pathInfo(F, path) IN
    IF ~p.Exists
    THEN allowLoop(F, W, mode, user, origin, i + 1, n, path, accessType)
    ELSE
      LET aclGraph == ReadFile(F, p.AclFile) IN
      IF Stops(aclGraph, W, accessType, p.URI, mode, user, origin)
      THEN Decide(aclGraph, W, accessType, p.URI, mode, user, origin)
      ELSE IF i # 0 /\ StrLen(p.Path) = 0
           THEN NoPolicy
           ELSE allowLoop(F, W, mode, user, origin, i + 1, n,
                          NextPath(i, p), acl_defaultForNew)

\* WAC.allow(mode, path)
allow(F, W, mode, user, origin, path) ==
  LET p == pathInfo(F, path) IN
  allowLoop(F, W, mode, user, origin, 0, Depth(p), path, acl_accessTo)

----------------------------------------------------------------------------
(* File operations                                                         *)

DirRec == [k |-> "dir", g |-> {}, raw |-> FALSE]
FileRec(g) == [k |-> "file", g |-> g, raw |-> FALSE]
RawRec == [k |-> "file", g |-> {}, raw |-> TRUE]

Prefixes(n) == {SubSeq(n, 1, i) : i \in 1..Len(n)}

Children(F, n) ==
  {q \in DOMAIN F : Len(q) = Len(n) + 1 /\ SubSeq(q, 1, Len(n)) = n}

\* os.Mkdir: the directory alone, its parent has to exist
MkdirAll_single(F, p) ==
  LET n == NodeOf(p) IN
  IF \/ \E q \in Prefixes(n) : IsFileNode(F, q)
     \/ (n # <<>> /\ ~IsDirNode(F, Front(n)))
  THEN [err |-> TRUE, fs |-> F]
  ELSE [err |-> FALSE, fs |-> (n :> DirRec) @@ F]

\* os.MkdirAll(root + path): fails when an element of the path is a file
MkdirAll(F, p) ==
  LET n == NodeOf(p) IN
  IF \E q \in Prefixes(n) : IsFileNode(F, q)
  THEN [err |-> TRUE, fs |-> F]
  ELSE [err |-> FALSE,
        fs |-> [q \in DOMAIN F \cup Prefixes(n) |->
                  IF q \in DOMAIN F THEN F[q] ELSE DirRec]]

\* os.OpenFile(root + path, O_CREATE|O_TRUNC|O_WRONLY) and the write of the
\* new content rec; fails on a directory, below a file or a missing parent
OpenTrunc(F, p, rec) ==
  LET n == NodeOf(p) IN
  IF \/ n = <<>> \/ WantsDir(p) \/ IsDirNode(F, n)
     \/ ThroughFile(F, n) \/ ~IsDirNode(F, Front(n))
  THEN [err |-> TRUE, fs |-> F]
  ELSE [err |-> FALSE, fs |-> (n :> rec) @@ F]

\* a removal that takes the ACL and meta files of the target with it
Remove_withShadows(F, p) ==
  LET n == NodeOf(p)
      st == Stat(F, p)
      gone == {n, NodeOf(AclShadow(p)), NodeOf(MetaShadow(p))}
  IN IF st = "ENOENT" THEN [err |-> "notexist", fs |-> F]
     ELSE IF st = "ENOTDIR" \/ Children(F, n) # {}
     THEN [err |-> "other", fs |-> F]
     ELSE [err |-> "none", fs |-> [q \in DOMAIN F \ gone |-> F[q]]]

\* os.Remove(root + path): err is "none", "notexist" or "other"
Remove(F, p) ==
  LET n == NodeOf(p)
      st == Stat(F, p)
  IN IF st = "ENOENT" THEN [err |-> "notexist", fs |-> F]
     ELSE IF st = "ENOTDIR" \/ Children(F, n) # {}
     THEN [err |-> "other", fs |-> F]
     ELSE [err |-> "none", fs |-> [q \in DOMAIN F \ {n} |-> F[q]]]

\* filepath.Base: the last element of the path
BaseName(p) ==
  LET c == SelectSeq(p, LAMBDA x : x # <<>>) IN
  IF c = <<>> THEN <<".">> ELSE c[Len(c)]

----------------------------------------------------------------------------
(* Requests and preconditions                                              *)

Quote(e) == <<"dq", e, "dq">>

\* NewETag(file): a token for the current state of the file, empty when the
\* file cannot be read
NewETag(F, p) == IF Stat(F, p) \in {"dir", "file"} THEN "cur" ELSE ""

\* the token * of a precondition header; a header value is the sequence of
\* its comma-separated tokens with the surrounding blanks trimmed, each a
\* string: Star or a quoted tag
Star == <<"*">>

\* variant: any If-Match header is taken as satisfied
ifMatch_any(hdr, etag) == TRUE

\* httpRequest.ifMatch over the comma-separated tokens of If-Match
ifMatch(hdr, etag) ==
  \/ Len(etag) = 0
  \/ Len(hdr) = 0
  \/ \E i \in 1..Len(hdr) : hdr[i] = Star \/ hdr[i] = etag

\* variant: one token equal to the current tag leaves it unsatisfied
ifNoneMatch_anyEqual(hdr, etag) ==
  \/ Len(etag) = 0
  \/ Len(hdr) = 0
  \/ \A i \in 1..Len(hdr) : hdr[i] # Star /\ hdr[i] # etag

\* httpRequest.ifNoneMatch over the tokens of If-None-Match
ifNoneMatch(hdr, etag) ==
  \/ Len(etag) = 0
  \/ Len(hdr) = 0
  \/ \E i \in 1..Len(hdr) : hdr[i] # Star /\ hdr[i] # etag

Multipart == "multipart/form-data"
LDPBasicContainer == "http://www.w3.org/ns/ldp#BasicContainer"

\* mimeParser: the media types with a body parser
mimeParser == {"text/turtle", "application/ld+json", "application/json",
               "application/sparql-update"}

\* the graph after the body is applied to it (Graph.Parse adds triples)
Merge(g, body) == g \cup body

\* part_002:1059-1062: every triple of the body, about "."
AboutDot(g) == {<<NewResource("."), t[2], t[3]>> : t \in g}

\* the response of a request: status (-1: the handler panicked and the
\* connection was dropped), whether a WWW-Authenticate challenge was set,
\* the status of the last ACL check made by the gate (0: none made),
\* whether the WebDAV handler was called, and the Location header
Resp(status, www, gate, dav, loc) ==
  [status |-> status, www |-> www, gate |-> gate, dav |-> dav, loc |-> loc]

NoLoc == <<>>

Out(F, status, www, gate) ==
  [fs |-> F, resp |-> Resp(status, www, gate, FALSE, NoLoc)]

\* the gate record of one answer of allow: whether the request goes on, the
\* status to answer otherwise, and whether a challenge was set
Checked(a) == [pass |-> ~(a.status > 200), status |-> a.status, www |-> a.www]

\* the gate record when the Write check follows a refused Append check
Retried(aclAppend, aclWrite) ==
  IF aclAppend.status > 200
  THEN [pass |-> ~(aclWrite.status > 200), status |-> aclWrite.status,
        www |-> aclAppend.www \/ aclWrite.www]
  ELSE Checked(aclAppend)

\* variant: the gate without the Write retry
GateAW_appendOnly(F, W, r, resource) ==
  Checked(allow(F, W, "Append", r.user, r.origin, resource.Path))

\* the Append-then-Write gate of PATCH, POST and PUT
GateAW(F, W, r, resource) ==
  Retried(allow(F, W, "Append", r.user, r.origin, resource.Path),
          allow(F, W, "Write", r.user, r.origin, resource.Path))

\* variant: the answer of allow is not looked at
Gate_open(F, W, r, resource, mode) ==
  [Checked(allow(F, W, mode, r.user, r.origin, resource.Path))
     EXCEPT !.pass = TRUE]

\* the single check of the other verbs
Gate(F, W, r, resource, mode) ==
  Checked(allow(F, W, mode, r.user, r.origin, resource.Path))

\* part_002:929-935: the ETag preconditions of PATCH, POST and PUT
PrecondOK(F, r, resource) ==
  LET etag == Quote(NewETag(F, resource.File)) IN
  ifMatch(r.ifm, etag) /\ ifNoneMatch(r.inm, etag)

----------------------------------------------------------------------------
(* Verb handlers of Server.handle: each yields the store and the response  *)

\* part_002:608-913: GET and HEAD past the gate
gatedGET(F, r, resource, a) ==
  LET etag == Quote(NewETag(F, resource.File))
  IN IF ~a.pass THEN Out(F, a.status, a.www, a.status)
     ELSE IF ~ifMatch(r.ifm, etag) THEN Out(F, 412, a.www, a.status)
     ELSE IF /\ ~ifNoneMatch(r.inm, etag)
             /\ Stat(F, resource.File) # "dir"
             /\ r.accept # "text/html"
          THEN Out(F, 304, a.www, a.status)
     ELSE Out(F, 200, a.www, a.status)

\* part_002:548-913, the representation left out: status of GET and HEAD
handleGET(F, W, r, resource) ==
  IF Stat(F, resource.File) \notin {"dir", "file"} THEN Out(F, 404, FALSE, 0)
  ELSE gatedGET(F, r, resource, Gate(F, W, r, resource, "Read"))

\* part_002:929-973: PATCH past the gate, a the gate record
gatedPATCH(F, r, resource, a) ==
  IF ~a.pass THEN Out(F, a.status, a.www, a.status)
  ELSE IF ~PrecondOK(F, r, resource) THEN Out(F, 412, a.www, a.status)
  ELSE IF r.ctype \in mimeParser
  THEN LET g == Merge(ReadFile(F, resource.File), r.body)
           o == OpenTrunc(F, resource.File, FileRec(g))
       IN IF o.err THEN Out(F, 500, a.www, a.status)
          ELSE Out(o.fs, 200, a.www, a.status)
  ELSE Out(F, 200, a.www, a.status)

\* part_002:915-973
handlePATCH(F, W, r, resource) ==
  gatedPATCH(F, r, resource, GateAW(F, W, r, resource))

\* variant: the body replaces the stored graph
postWrite_replace(F, r, res, isNew, www, gate, loc) ==
  LET new == isNew \/ Stat(F, res.File) = "ENOENT"
      o == OpenTrunc(F, res.File,
                     IF r.ctype \in mimeParser THEN FileRec(r.body) ELSE RawRec)
  IN IF o.err
     THEN [fs |-> F, resp |-> Resp(500, www, gate, FALSE, loc)]
     ELSE [fs |-> o.fs,
           resp |-> Resp(IF new THEN 201 ELSE 200, www, gate, FALSE, loc)]

\* part_002:1103-1195: the write of a POST on the resource res, after the
\* container branch
postWrite(F, r, res, isNew, www, gate, loc) ==
  IF r.ctype = Multipart
  THEN LET newFile == IF BaseName(res.Path) = <<r.part>>
                      THEN res.File ELSE AddSuffix(res.File, r.part)
           o == OpenTrunc(F, newFile, RawRec)
       IN IF o.err
          THEN [fs |-> F, resp |-> Resp(500, www, gate, FALSE, loc)]
          ELSE [fs |-> o.fs,
                resp |-> Resp(201, www, gate, FALSE, URIOf(AddSuffix(res.Path, r.part)))]
  ELSE
    LET new == isNew \/ Stat(F, res.File) = "ENOENT"
        rec == IF r.ctype \in mimeParser
               THEN FileRec(Merge(ReadFile(F, res.File), r.body))
               ELSE RawRec
        o == OpenTrunc(F, res.File, rec)
    IN IF o.err
       THEN [fs |-> F, resp |-> Resp(500, www, gate, FALSE, loc)]
       ELSE [fs |-> o.fs,
             resp |-> Resp(IF new THEN 201 ELSE 200, www, gate, FALSE, loc)]

\* part_002:1042: the response with the header Link rel="meta"
WithMeta(rsp, metaURI) == rsp @@ [meta |-> metaURI]

\* variant: the child path is not given its trailing "/"
postContainer_unslashed(F, r, path, www, gate) ==
  IF pathInfo(F, path).panic THEN Out(F, -1, www, gate)
  ELSE IF MkdirAll(F, pathInfo(F, path).File).err
  THEN [fs |-> F,
        resp |-> WithMeta(Resp(500, www, gate, FALSE, pathInfo(F, path).URI),
                          pathInfo(F, path).MetaURI)]
  ELSE [fs |-> MkdirAll(F, pathInfo(F, path).File).fs,
        resp |-> WithMeta(Resp(201, www, gate, FALSE, pathInfo(F, path).URI),
                          pathInfo(F, path).MetaURI)]

\* part_002:1032-1081: POST creating a container at path
postContainer(F, r, path, www, gate) ==
  LET res == pathInfo(F, IF HasSuffixSlash(path) THEN path ELSE AddSlash(path)) IN
  IF res.panic THEN Out(F, -1, www, gate)
  ELSE
    LET m == MkdirAll(F, res.File) IN
    IF m.err
    THEN [fs |-> F,
          resp |-> WithMeta(Resp(500, www, gate, FALSE, res.URI), res.MetaURI)]
    ELSE IF r.ctype \in mimeParser
    THEN LET o == OpenTrunc(m.fs, res.MetaFile, FileRec(AboutDot(r.body))) IN
         IF o.err
         THEN [fs |-> m.fs,
               resp |-> WithMeta(Resp(500, www, gate, FALSE, res.URI),
                                 res.MetaURI)]
         ELSE [fs |-> o.fs,
               resp |-> WithMeta(Resp(201, www, gate, FALSE, res.URI),
                                 res.MetaURI)]
    ELSE [fs |-> m.fs,
          resp |-> WithMeta(Resp(201, www, gate, FALSE, res.URI), res.MetaURI)]

\* part_002:989-1195: POST past the gate
gatedPOST(F, r, resource, uuid, a) ==
  IF ~a.pass THEN Out(F, a.status, a.www, a.status)
  ELSE IF ~PrecondOK(F, r, resource) THEN Out(F, 412, a.www, a.status)
  ELSE
    LET stat == Stat(F, resource.File) IN
    IF stat = "dir" /\ r.ctype # Multipart
    THEN
      LET cont == IF HasSuffixSlash(resource.Path)
                  THEN resource.Path ELSE AddSlash(resource.Path)
          taken == /\ r.slug # ""
                   /\ Stat(F, AddSuffix(resource.File, r.slug)) \in {"dir", "file"}
          slug == IF r.slug # "" THEN r.slug ELSE uuid
          child == AddSuffix(cont, slug)
      IN IF taken THEN Out(F, 409, a.www, a.status)
         ELSE IF r.link = LDPBasicContainer
         THEN postContainer(F, r, child, a.www, a.status)
         ELSE LET res == pathInfo(F, child) IN
              IF res.panic THEN Out(F, -1, a.www, a.status)
              ELSE postWrite(F, r, res, TRUE, a.www, a.status, res.URI)
    ELSE IF stat \notin {"dir", "file"}
    THEN LET m == MkdirAll(F, Dir(resource.File)) IN
         IF m.err THEN Out(F, 500, a.www, a.status)
         ELSE postWrite(m.fs, r, resource, FALSE, a.www, a.status, NoLoc)
    ELSE postWrite(F, r, resource, FALSE, a.www, a.status, NoLoc)

\* part_002:975-1195; uuid is the name newUUID yields for this request
handlePOST(F, W, r, resource, uuid) ==
  gatedPOST(F, r, resource, uuid, GateAW(F, W, r, resource))

\* part_002:1214-1286: PUT past the gate
gatedPUT(F, r, resource, a) ==
  IF ~a.pass THEN Out(F, a.status, a.www, a.status)
  ELSE IF ~PrecondOK(F, r, resource) THEN Out(F, 412, a.www, a.status)
  ELSE IF r.link = LDPBasicContainer
  THEN LET m == MkdirAll(F, resource.File) IN
       IF m.err THEN Out(F, 500, a.www, a.status)
       ELSE Out(m.fs, 201, a.www, a.status)
  ELSE
    LET m == MkdirAll(F, Dir(resource.File)) IN
    IF m.err THEN Out(F, 500, a.www, a.status)
    ELSE
      LET stat == Stat(m.fs, resource.File)
          rec == IF r.ctype \in mimeParser THEN FileRec(r.body) ELSE RawRec
          o == OpenTrunc(m.fs, resource.File, rec)
      IN IF o.err
         THEN IF stat = "dir" THEN Out(m.fs, 406, a.www, a.status)
              ELSE IF stat = "file" THEN Out(m.fs, 500, a.www, a.status)
              ELSE Out(m.fs, -1, a.www, a.status)
         ELSE [fs |-> o.fs,
               resp |-> Resp(201, a.www, a.status, FALSE, resource.URI)]

\* part_002:1197-1286
handlePUT(F, W, r, resource) ==
  gatedPUT(F, r, resource, GateAW(F, W, r, resource))

\* DELETE without the test of the empty path
gatedDELETE_anyPath(F, r, resource, a) ==
  IF ~a.pass THEN Out(F, a.status, a.www, a.status)
  ELSE LET d == Remove(F, resource.File) IN
       IF d.err = "notexist" THEN Out(F, 404, a.www, a.status)
       ELSE IF d.err = "other" THEN Out(F, 500, a.www, a.status)
       ELSE IF Stat(d.fs, resource.File) \in {"dir", "file"}
            THEN Out(d.fs, 409, a.www, a.status)
       ELSE Out(d.fs, 200, a.www, a.status)

\* part_002:1296-1312: DELETE past the gate
gatedDELETE(F, r, resource, a) ==
  IF ~a.pass THEN Out(F, a.status, a.www, a.status)
  ELSE IF StrLen(resource.Path) = 0 THEN Out(F, 500, a.www, a.status)
  ELSE LET d == Remove(F, resource.File) IN
       IF d.err = "notexist" THEN Out(F, 404, a.www, a.status)
       ELSE IF d.err = "other" THEN Out(F, 500, a.www, a.status)
       ELSE IF Stat(d.fs, resource.File) \in {"dir", "file"}
            THEN Out(d.fs, 409, a.www, a.status)
       ELSE Out(d.fs, 200, a.www, a.status)

\* part_002:1288-1312
handleDELETE(F, W, r, resource) ==
  gatedDELETE(F, r, resource, Gate(F, W, r, resource, "Write"))

\* part_002:1322-1338: MKCOL past the gate
gatedMKCOL(F, r, resource, a) ==
  IF ~a.pass THEN Out(F, a.status, a.www, a.status)
  ELSE LET m == MkdirAll(F, resource.File) IN
       IF m.err THEN Out(F, 409, a.www, a.status)
       ELSE IF Stat(m.fs, resource.File) \notin {"dir", "file"}
            THEN Out(m.fs, 409, a.www, a.status)
       ELSE Out(m.fs, 201, a.www, a.status)

\* part_002:1314-1338
handleMKCOL(F, W, r, resource) ==
  gatedMKCOL(F, r, resource, Gate(F, W, r, resource, "Write"))

\* part_002:1344-1345: the WebDAV verbs past the gate
gatedDAV(F, r, resource, a) ==
  IF ~a.pass THEN Out(F, a.status, a.www, a.status)
  ELSE [fs |-> F, resp |-> Resp(200, a.www, a.status, TRUE, NoLoc)]

\* part_002:1340-1345: COPY, MOVE, LOCK and UNLOCK; the work of the WebDAV
\* handler itself is not described, only that it is called
handleDAV(F, W, r, resource) ==
  gatedDAV(F, r, resource, Gate(F, W, r, resource, "Write"))

DAVMethods == {"COPY", "MOVE", "LOCK", "UNLOCK"}

\* variant: only the verbs that change the store are refused a body
\* without parser
Prologue_mutating(F, r) ==
  IF pathInfo(F, r.path).panic THEN -1
  ELSE IF /\ r.ctype # "" /\ r.ctype # Multipart /\ r.ctype \notin mimeParser
          /\ r.m \in {"PATCH", "POST", "DELETE", "MKCOL"}
  THEN 415
  ELSE IF r.accept \notin {"", "text/turtle", "text/html"}
  THEN 406
  ELSE 0

\* part_002:481-505: the answer given before the method switch (0: none):
\* the panic of pathInfo, 415 for a body without parser, 406 for an Accept
\* header no serializer satisfies
Prologue(F, r) ==
  IF pathInfo(F, r.path).panic THEN -1
  ELSE IF /\ r.ctype # "" /\ r.ctype # Multipart /\ r.ctype \notin mimeParser
          /\ r.m \notin {"PUT", "HEAD", "OPTIONS"}
  THEN 415
  ELSE IF r.accept \notin {"", "text/turtle", "text/html"}
  THEN 406
  ELSE 0

\* part_002:514-1346: switch req.Method, resource the answer pathInfo gave
\* when the request arrived
methodSwitch(F, W, r, resource, uuid) ==
  CASE r.m = "OPTIONS" -> Out(F, 200, FALSE, 0)
    [] r.m \in {"GET", "HEAD"} -> handleGET(F, W, r, resource)
    [] r.m = "PATCH" -> handlePATCH(F, W, r, resource)
    [] r.m = "POST" -> handlePOST(F, W, r, resource, uuid)
    [] r.m = "PUT" -> handlePUT(F, W, r, resource)
    [] r.m = "DELETE" -> handleDELETE(F, W, r, resource)
    [] r.m = "MKCOL" -> handleMKCOL(F, W, r, resource)
    [] r.m \in DAVMethods -> handleDAV(F, W, r, resource)
    [] OTHER -> Out(F, 405, FALSE, 0)

\* part_002:442-1351: Server.handle for a request whose authenticated user
\* is r.user
handle(F, W, r, uuid) ==
  IF Prologue(F, r) # 0 THEN Out(F, Prologue(F, r), FALSE, 0)
  ELSE methodSwitch(F, W, r, pathInfo(F, r.path), uuid)

----------------------------------------------------------------------------
(* Vocabulary of the checked configurations                                *)

Users == {"", "U1", "U2"}
Origins == {"", "O1", "O2"}
Modes == {"Read", "Write", "Append", "Control"}
GroupURI == "G1"

DD == <<"dd">>
FF == <<"f">>

\* canonical paths of the resources of the store
RootPath == EmptyStr
DirPath == <<DD, <<>>>>
SubDirPath == <<DD, DD, <<>>>>
FilePath == <<FF>>
DirFilePath == <<DD, FF>>

\* the triples of one authorization: subject s, modes ms, access type at
\* naming the resource of path P, agent predicate ap with object ao, and
\* the listed origins os
Rule(s, ms, at, P, ap, ao, os) ==
  {<<s, acl_mode, NewResource(m)>> : m \in ms}
    \cup {<<s, at, NewResource(URIOf(P))>>}
    \cup {<<s, ap, NewResource(ao)>>}
    \cup {<<s, acl_origin, NewResource(o)>> : o \in os}

\* who an authorization can name
Whos == {<<acl_agent, "U1">>, <<acl_owner, "U1">>,
         <<acl_agentClass, "foaf:Agent">>, <<acl_agentClass, GroupURI>>}

\* every single-authorization ACL document about the resource of path P
RulesAbout(s, P) ==
  {Rule(s, {m}, at, P, w[1], w[2], os) :
     m \in Modes, at \in {acl_accessTo, acl_defaultForNew},
     w \in Whos, os \in {{}, {"O1"}}}

\* a smaller family, used where two documents are combined
FewRulesAbout(s, P) ==
  {Rule(s, {m}, at, P, w[1], w[2], os) :
     m \in {"Read", "Control"}, at \in {acl_accessTo, acl_defaultForNew},
     w \in {<<acl_agent, "U1">>, <<acl_agentClass, "foaf:Agent">>},
     os \in {{}, {"O1"}}}

\* the same family without origins
PlainRulesAbout(s, P) ==
  {Rule(s, {m}, at, P, w[1], w[2], {}) :
     m \in {"Read", "Control"}, at \in {acl_accessTo, acl_defaultForNew},
     w \in {<<acl_agent, "U1">>, <<acl_agentClass, "foaf:Agent">>}}

\* remote group documents: G1 typed as a group with member U2, or the same
\* members without the type
WebOK == [x \in {GroupURI} |->
           {<<NewResource(GroupURI), rdf_type, foaf_Group>>,
            <<NewResource(GroupURI), foaf_member, NewResource("U2")>>}]
WebUntyped == [x \in {GroupURI} |->
           {<<NewResource(GroupURI), foaf_member, NewResource("U2")>>}]
\* G1 a group whose only member is the group G2, of which U2 is a member
SubGroupURI == "G2"
WebNested ==
  (GroupURI :> {<<NewResource(GroupURI), rdf_type, foaf_Group>>,
                <<NewResource(GroupURI), foaf_member, NewResource(SubGroupURI)>>})
    @@ (SubGroupURI :>
          {<<NewResource(SubGroupURI), rdf_type, foaf_Group>>,
           <<NewResource(SubGroupURI), foaf_member, NewResource("U2")>>})
\* no document can be fetched
WebDown == [x \in {} |-> {}]
Webs == {WebOK, WebUntyped, WebNested, WebDown}

\* the resources of the prepared store: /, /dd/, /dd/dd/, /f and /dd/f
TreeFS ==
  (<<>> :> DirRec) @@ (<<DD>> :> DirRec) @@ (<<DD, DD>> :> DirRec)
    @@ (<<FF>> :> FileRec({})) @@ (<<DD, FF>> :> FileRec({}))

Located == {RootPath, DirPath, SubDirPath, FilePath, DirFilePath}

AclNode(P) == NodeOf(AddSuffix(P, ACLSuffix))

\* strict ancestor directories of a resource of the prepared store
AncestorsOf(P) ==
  CASE P = RootPath -> {}
    [] P = DirPath -> {RootPath}
    [] P = FilePath -> {RootPath}
    [] P = SubDirPath -> {RootPath, DirPath}
    [] P = DirFilePath -> {RootPath, DirPath}

AncPairs == {pq \in Located \X Located : pq[2] \in AncestorsOf(pq[1])}

\* prepared stores: the tree alone, the tree with one ACL document, with a
\* two-authorization document, and with the documents of a resource and of
\* one of its ancestors
OneAcl(P) ==
  {(AclNode(P) :> FileRec(d)) @@ TreeFS : d \in RulesAbout("r1", P)}

TwoRules(P) ==
  {(AclNode(P) :> FileRec(d1 \cup d2)) @@ TreeFS :
     d1 \in FewRulesAbout("r1", P), d2 \in FewRulesAbout("r2", P)}

TwoAcls(P, Q) ==
  {(AclNode(P) :> FileRec(d1)) @@ (AclNode(Q) :> FileRec(d2)) @@ TreeFS :
     d1 \in PlainRulesAbout("r1", P), d2 \in PlainRulesAbout("r2", Q)}

WACStores ==
  {TreeFS}
    \cup UNION {OneAcl(P) : P \in Located}
    \cup UNION {TwoRules(P) : P \in {DirPath, DirFilePath}}
    \cup UNION {TwoAcls(pq[1], pq[2]) : pq \in AncPairs}

NoResp == [status |-> 0, www |-> FALSE]

\* one direct call of WAC.allow on a prepared store
InitWAC ==
  /\ fs \in WACStores
  /\ web \in Webs
  /\ web # WebOK => fs \in OneAcl(DirPath) \cup OneAcl(DirFilePath)
  /\ req \in [m : {"allow"}, mode : Modes, path : Located,
              user : Users, origin : Origins]
  /\ resp = NoResp
  /\ nw = 0

AllowCall ==
  /\ req.m = "allow"
  /\ resp = NoResp
  /\ resp' = allow(fs, web, req.mode, req.user, req.origin, req.path)
  /\ UNCHANGED <<fs, web, req, nw>>

NextWAC == AllowCall

SpecWAC == InitWAC /\ [][NextWAC]_vars

----------------------------------------------------------------------------
(* Delegation: NewWAC on a request carrying On-Behalf-Of                   *)

acl_delegates == "acl:delegates"

\* variant: any statement of the delegator's profile is taken as a delegation
verifyDelegator_anyone(W, delegator, delegatee) ==
  All(LoadURI(W, delegator), NewResource(delegator), acl_delegates, nil) # {}

\* part_002:204-217
verifyDelegator(W, delegator, delegatee) ==
  \E val \in All(LoadURI(W, delegator), NewResource(delegator),
                 acl_delegates, nil) :
    debrack(TermString(val[3])) = delegatee

\* part_002:21-30: the user the WAC object is built for; onBehalfOf is the
\* value of the On-Behalf-Of header, <<>> when the header is absent
NewWAC(W, onBehalfOf, user) ==
  IF Len(onBehalfOf) > 0 /\ verifyDelegator(W, debrack(onBehalfOf), user)
  THEN debrack(onBehalfOf)
  ELSE user

\* profile documents: U1 delegates to U2; U2 delegates to U1; U1's profile
\* speaks of a delegation by somebody else, and U2's delegates to nobody
ProfilesU1 ==
  "U1" :> {<<NewResource("U1"), acl_delegates, NewResource("U2")>>}
ProfilesU2 ==
  "U2" :> {<<NewResource("U2"), acl_delegates, NewResource("U1")>>}
ProfilesOther ==
  ("U1" :> {<<NewResource("U2"), acl_delegates, NewResource("U2")>>})
    @@ ("U2" :> {<<NewResource("U2"), rdf_type, NewResource("foaf:Person")>>})
Profiles == {ProfilesU1, ProfilesU2, ProfilesOther, WebDown}

OnBehalfOfs == {<<>>, brack("U1"), brack("U2")}

\* one request reaching NewWAC and one decision of the WAC object built
InitDelegation ==
  /\ fs \in OneAcl(DirFilePath)
  /\ web \in Profiles
  /\ req \in [m : {"NewWAC"}, mode : Modes, path : {DirFilePath},
              user : Users, origin : {""}, onBehalfOf : OnBehalfOfs,
              acluser : {""}]
  /\ resp = NoResp
  /\ nw = 0

DelegatedCall ==
  /\ req.m = "NewWAC"
  /\ resp = NoResp
  /\ \E u \in {NewWAC(web, req.onBehalfOf, req.user)} :
       /\ req' = [req EXCEPT !.m = "allow", !.acluser = u]
       /\ resp' = allow(fs, web, req.mode, u, req.origin, req.path)
  /\ UNCHANGED <<fs, web, nw>>

NextDelegation == DelegatedCall

SpecDelegation == InitDelegation /\ [][NextDelegation]_vars

----------------------------------------------------------------------------
(* Authentication: authn and the Authorization header parser.  A header    *)
(* value, a parameter and a user are strings, written as sequences of      *)
(* tokens; " ", "," , "=" and the double quote are tokens of their own.    *)

\* the string of length 0
NoStr == <<>>

SP == " "
COMMA == ","
EQ == "="
DQ == "dq"

\* strings.Index for a one-token separator: 0 when it does not occur
IndexOf(str, c) ==
  IF \E i \in 1..Len(str) : str[i] = c
  THEN CHOOSE i \in 1..Len(str) :
         str[i] = c /\ \A j \in 1..(i - 1) : str[j] # c
  ELSE 0

\* strings.SplitN(str, c, 2)
SplitN2(str, c) ==
  IF IndexOf(str, c) = 0
  THEN <<str>>
  ELSE <<SubSeq(str, 1, IndexOf(str, c) - 1),
         SubSeq(str, IndexOf(str, c) + 1, Len(str))>>

\* first position of the separator ", ", 0 when it does not occur
IndexCommaSpace(str) ==
  IF \E i \in 1..(Len(str) - 1) : str[i] = COMMA /\ str[i + 1] = SP
  THEN CHOOSE i \in 1..(Len(str) - 1) :
         /\ str[i] = COMMA /\ str[i + 1] = SP
         /\ \A j \in 1..(i - 1) : ~(str[j] = COMMA /\ str[j + 1] = SP)
  ELSE 0

\* strings.Split(str, ", ")
RECURSIVE SplitCommaSpace(_)
SplitCommaSpace(str) ==
  IF IndexCommaSpace(str) = 0
  THEN <<str>>
  ELSE <<SubSeq(str, 1, IndexCommaSpace(str) - 1)>>
         \o SplitCommaSpace(SubSeq(str, IndexCommaSpace(str) + 2, Len(str)))

\* strings.Trim(str, "\",")
RECURSIVE Trim(_)
Trim(str) ==
  IF Len(str) = 0 THEN str
  ELSE IF str[1] \in {DQ, COMMA} THEN Trim(Tail(str))
  ELSE IF str[Len(str)] \in {DQ, COMMA} THEN Trim(Front(str))
  ELSE str

\* opts[key] after the loop of part_000:140-145: the value of the last
\* part with that key, the default when no part has it
RECURSIVE OptOf(_, _, _)
OptOf(parts, key, default) ==
  IF Len(parts) = 0 THEN default
  ELSE IF SplitN2(parts[Len(parts)], EQ)[1] = key
       THEN Trim(SplitN2(parts[Len(parts)], EQ)[2])
       ELSE OptOf(Front(parts), key, default)

\* the index expression of part_000:138 or of part_000:143 is out of range
ParsePanics(header) ==
  \/ Len(SplitN2(header, SP)) < 2
  \/ \E i \in 1..Len(SplitCommaSpace(SplitN2(header, SP)[2])) :
        Len(SplitN2(SplitCommaSpace(SplitN2(header, SP)[2])[i], EQ)) < 2

NoAuthorization ==
  [Type |-> NoStr, Username |-> NoStr, Nonce |-> NoStr,
   Signature |-> NoStr, err |-> TRUE, panicked |-> FALSE]

\* variant: a value that cannot be indexed is answered with an error
ParseDigestAuthorizationHeader_checked(header) ==
  IF Len(header) = 0 \/ ParsePanics(header)
  THEN NoAuthorization
  ELSE [Type |-> OptOf(SplitCommaSpace(SplitN2(header, SP)[2]), <<"type">>,
                       SplitN2(header, SP)[1]),
        Username |-> OptOf(SplitCommaSpace(SplitN2(header, SP)[2]),
                           <<"username">>, NoStr),
        Nonce |-> OptOf(SplitCommaSpace(SplitN2(header, SP)[2]),
                        <<"nonce">>, NoStr),
        Signature |-> OptOf(SplitCommaSpace(SplitN2(header, SP)[2]),
                            <<"sig">>, NoStr),
        err |-> FALSE, panicked |-> FALSE]

\* part_000:128-154; panicked stands for the run-time panic of an index
\* out of range
ParseDigestAuthorizationHeader(header) ==
  IF Len(header) = 0 THEN NoAuthorization
  ELSE IF ParsePanics(header)
  THEN [NoAuthorization EXCEPT !.err = FALSE, !.panicked = TRUE]
  ELSE ParseDigestAuthorizationHeader_checked(header)

\* part_000:54-64: the user of the Session cookie; a cookie is absent, or
\* present with an envelope that decodes or not
userCookie(cookie) ==
  IF cookie.present /\ cookie.valid THEN cookie.user ELSE NoStr

\* WebIDDigestAuth: the parsed username when the nonce is one the server
\* issued and the signature verifies against the profile's key
IssuedNonce == <<"n1">>
GoodSignature == <<"ok">>
WebIDDigestAuth(header) ==
  IF ParseDigestAuthorizationHeader(header).panicked
  THEN [user |-> NoStr, panicked |-> TRUE]
  ELSE IF /\ ~ParseDigestAuthorizationHeader(header).err
          /\ ParseDigestAuthorizationHeader(header).Nonce = IssuedNonce
          /\ ParseDigestAuthorizationHeader(header).Signature = GoodSignature
       THEN [user |-> ParseDigestAuthorizationHeader(header).Username,
             panicked |-> FALSE]
       ELSE [user |-> NoStr, panicked |-> FALSE]

\* WebIDTLSAuth: the first subjectAltName URI of the peer certificate whose
\* profile declares the certificate's key; tls is the sequence of
\* <<URI, key declared>> of the certificate, empty without a certificate
RECURSIVE WebIDTLSAuth(_)
WebIDTLSAuth(tls) ==
  IF Len(tls) = 0 THEN NoStr
  ELSE IF tls[1][2] THEN tls[1][1]
  ELSE WebIDTLSAuth(Tail(tls))

\* what a run of authn leaves: the user returned, whether a Session cookie
\* was set, which mechanisms were evaluated, status -1 for a panic
Authn(user, cookieSet, digest, tlsSeen, status) ==
  [user |-> user, cookieSet |-> cookieSet, digest |-> digest,
   tlsSeen |-> tlsSeen, status |-> status]

\* variant: the certificate is looked at before the Authorization header
authn_tlsFirst(r) ==
  IF Len(userCookie(r.cookie)) > 0
  THEN Authn(userCookie(r.cookie), FALSE, FALSE, FALSE, 0)
  ELSE IF Len(WebIDTLSAuth(r.tls)) > 0
  THEN Authn(WebIDTLSAuth(r.tls), TRUE, FALSE, TRUE, 0)
  ELSE IF Len(r.authorization) > 0 /\ WebIDDigestAuth(r.authorization).panicked
  THEN Authn(NoStr, FALSE, TRUE, TRUE, -1)
  ELSE IF Len(r.authorization) > 0
          /\ Len(WebIDDigestAuth(r.authorization).user) > 0
  THEN Authn(WebIDDigestAuth(r.authorization).user, FALSE, TRUE, TRUE, 0)
  ELSE Authn(NoStr, FALSE, Len(r.authorization) > 0, TRUE, 0)

\* part_000:18-52
authn(r) ==
  IF Len(userCookie(r.cookie)) > 0
  THEN Authn(userCookie(r.cookie), FALSE, FALSE, FALSE, 0)
  ELSE IF Len(r.authorization) > 0 /\ WebIDDigestAuth(r.authorization).panicked
  THEN Authn(NoStr, FALSE, TRUE, FALSE, -1)
  ELSE IF Len(r.authorization) > 0
          /\ Len(WebIDDigestAuth(r.authorization).user) > 0
  THEN Authn(WebIDDigestAuth(r.authorization).user, FALSE, TRUE, FALSE, 0)
  ELSE IF Len(WebIDTLSAuth(r.tls)) > 0
  THEN Authn(WebIDTLSAuth(r.tls), TRUE, Len(r.authorization) > 0, TRUE, 0)
  ELSE Authn(NoStr, FALSE, Len(r.authorization) > 0, TRUE, 0)

\* Authorization header values
Param(key, val) == <<key, EQ, DQ>> \o val \o <<DQ>>
Digest(user, nonce, sig) ==
  <<"WebID-RSA", SP>> \o Param("username", user) \o <<COMMA, SP>>
    \o Param("nonce", nonce) \o <<COMMA, SP>> \o Param("sig", sig)
Authorizations ==
  {<<>>,
   Digest(<<"U1">>, <<"n1">>, <<"ok">>),
   Digest(<<"U2">>, <<"n1">>, <<"ok">>),
   Digest(<<"U1">>, <<"n1">>, <<"no">>),
   Digest(<<"U1">>, <<"n0">>, <<"ok">>),
   Digest(<<>>, <<"n1">>, <<"ok">>),
   <<"Basic", SP, "dXNlcg", EQ, EQ>>,
   <<"WebID-RSA">>,
   <<"WebID-RSA", SP>>,
   <<"WebID-RSA", SP, "username">>,
   <<"WebID-RSA", SP>> \o Param("username", <<"U1">>)
     \o <<COMMA, SP, "nonce">>}

Cookies ==
  {[present |-> FALSE, valid |-> FALSE, user |-> NoStr]}
    \cup [present : {TRUE}, valid : BOOLEAN,
          user : {NoStr, <<"U1">>, <<"U2">>}]

Certificates ==
  {<<>>, <<<<(<<"U1">>), TRUE>>>>, <<<<(<<"U1">>), FALSE>>>>,
   <<<<(<<"U1">>), FALSE>>, <<(<<"U2">>), TRUE>>>>}

\* one request reaching authn
InitAuthn ==
  /\ fs = TreeFS
  /\ web = WebOK
  /\ req \in [m : {"authn"}, cookie : Cookies,
              authorization : Authorizations, tls : Certificates]
  /\ resp = NoResp
  /\ nw = 0

Authenticate ==
  /\ req.m = "authn"
  /\ resp = NoResp
  /\ resp' = authn(req)
  /\ UNCHANGED <<fs, web, req, nw>>

NextAuthn == Authenticate

SpecAuthn == InitAuthn /\ [][NextAuthn]_vars

----------------------------------------------------------------------------
(* The server: requests handled one after the other on a growing store     *)

\* requests served in one behaviour
MaxRequests == 2

DirAclPath == <<DD, <<ACLSuffix>>>>

\* the triples of an authorization naming several resources
RuleOn(s, ms, accessTo, defaultForNew, ap, ao) ==
  {<<s, acl_mode, NewResource(m)>> : m \in ms}
    \cup {<<s, acl_accessTo, NewResource(URIOf(P))>> : P \in accessTo}
    \cup {<<s, acl_defaultForNew, NewResource(URIOf(P))>> : P \in defaultForNew}
    \cup {<<s, ap, NewResource(ao)>>}

\* request bodies: a data graph; an ACL for /dd/ giving Write to U1 and
\* Append to U2, inherited below /dd/; an ACL giving Control to its owner U1
DocData == {<<NewResource("a"), "b", NewResource("c")>>}
DocWriteAppend ==
  RuleOn("r1", {"Write"}, {DirPath, DirFilePath, DirAclPath}, {DirPath}, acl_agent, "U1")
    \cup RuleOn("r2", {"Append"}, {DirPath, DirFilePath}, {DirPath}, acl_agent, "U2")
DocOwner ==
  RuleOn("r1", {"Control"}, {DirPath, DirAclPath}, {DirPath}, acl_owner, "U1")

Targets == {DirPath, DirFilePath, DirAclPath}

UUIDs == {"uid"}

FreshFS == (<<>> :> DirRec)

\* the store after MKCOL /dd/ and PUT /dd/.acl of the document d
GuardedFS(d) ==
  (<<>> :> DirRec) @@ (<<DD>> :> DirRec) @@ (NodeOf(DirAclPath) :> FileRec(d))

\* the same with the resource /dd/f
GuardedFileFS(d) == (NodeOf(DirFilePath) :> FileRec(DocData)) @@ GuardedFS(d)

Stores ==
  {FreshFS} \cup {GuardedFS(d) : d \in {DocWriteAppend, DocOwner}}
    \cup {GuardedFileFS(d) : d \in {DocWriteAppend, DocOwner}}

PlainAt(m, paths) ==
  [m : {m}, path : paths, user : Users, origin : {""},
   ctype : {""}, body : {{}}, link : {""}, slug : {""}, part : {""},
   ifm : {<<>>}, inm : {<<>>}, accept : {""}]

Plain(m) == PlainAt(m, Targets)

WithBody(m, bodies) ==
  [m : {m}, path : Targets, user : Users, origin : {""},
   ctype : {"text/turtle"}, body : bodies, link : {""}, slug : {""}, part : {""},
   ifm : {<<>>}, inm : {<<>>}, accept : {""}]

\* a container request: Link type ldp#BasicContainer
AsContainer(m) ==
  [m : {m}, path : Targets, user : Users, origin : {""},
   ctype : {""}, body : {{}}, link : {LDPBasicContainer}, slug : {"f"}, part : {""},
   ifm : {<<>>}, inm : {<<>>}, accept : {""}]

\* POST of a form with one file part
WithForm ==
  [m : {"POST"}, path : Targets, user : Users, origin : {""},
   ctype : {Multipart}, body : {{}}, link : {""}, slug : {""}, part : {"f"},
   ifm : {<<>>}, inm : {<<>>}, accept : {""}]

AppendWriteVerbs == {"PATCH", "POST", "PUT"}
MutatingVerbs == AppendWriteVerbs \cup {"DELETE", "MKCOL"} \cup DAVMethods

\* what WAC.allow answers for the canonical URI of the request
AllowStatus(F, W, r, mode) ==
  allow(F, W, mode, r.user, r.origin, pathInfo(F, r.path).Path).status

\* the ACL decision on a request of a mutating verb, from the answers of
\* allow for Append and Write (0 for the other verbs): Append or else Write
\* for PATCH, POST and PUT, Write for the other verbs
Decision(m, append, write) ==
  IF m \notin MutatingVerbs THEN 0
  ELSE IF m \in AppendWriteVerbs /\ append = 200 THEN 200
  ELSE write

\* the directories above a path, nearest first, the root last
AncestorChain(P) ==
  LET n == NodeOf(P) IN
  [k \in 1..Len(n) |->
     IF k = Len(n) THEN EmptyStr ELSE AddSlash(SubSeq(n, 1, Len(n) - k))]

CreatingVerbs == {"PUT", "POST", "PATCH", "MKCOL"}

\* the nearest directory above the path with a non-empty ACL document,
\* <<>> when there is none
NearestGuard(F, P) ==
  LET c == AncestorChain(P)
      ks == {k \in DOMAIN c : ReadFile(F, AddSuffix(c[k], ACLSuffix)) # {}}
  IN IF ks = {} THEN <<>> ELSE c[CHOOSE k \in ks : \A j \in ks : k <= j]

\* what the statements keep of a request that reaches the method switch:
\* the verb, the requester, the ACL decision, the answers of allow for
\* Append and Write and, for a creating verb, the nearest directory above
\* the URI with a non-empty ACL document
Kept(r, append, write, below) ==
  [m |-> r.m, user |-> r.user, acl |-> Decision(r.m, append, write),
   append |-> append, write |-> write,
   below |-> IF r.m \in CreatingVerbs THEN below ELSE <<>>]

\* the same for any request: nothing is kept of the ACLs when the request
\* is answered before the method switch, nor of the directories above a
\* URI that exists
Seen(F, W, r) ==
  IF Prologue(F, r) # 0 THEN Kept(r, 0, 0, <<>>)
  ELSE Kept(r, AllowStatus(F, W, r, "Append"), AllowStatus(F, W, r, "Write"),
            IF pathInfo(F, r.path).Exists THEN <<>>
            ELSE NearestGuard(F, r.path))

\* one request served: the handler's effect on the store, its response, and
\* what the statements keep of the request
Serve(r, uuid) ==
  /\ \E o \in {handle(fs, web, r, uuid)} :
       /\ fs' = o.fs
       /\ resp' = o.resp
  /\ req' = Seen(fs, web, r)
  /\ nw' = nw + 1
  /\ UNCHANGED web

OPTIONS ==
  /\ nw < MaxRequests
  /\ \E r \in PlainAt("OPTIONS", {DirFilePath}) : Serve(r, "uid")

GET ==
  /\ nw < MaxRequests
  /\ \E r \in Plain("GET") \cup PlainAt("HEAD", {DirFilePath}) : Serve(r, "uid")

PATCH ==
  /\ nw < MaxRequests
  /\ \E r \in WithBody("PATCH", {DocData}) : Serve(r, "uid")

POST ==
  /\ nw < MaxRequests
  /\ \E r \in WithBody("POST", {DocData}) \cup AsContainer("POST") \cup WithForm :
       \E uuid \in UUIDs : Serve(r, uuid)

PUT ==
  /\ nw < MaxRequests
  /\ \E r \in WithBody("PUT", {DocData, DocOwner}) \cup AsContainer("PUT") :
       Serve(r, "uid")

DELETE ==
  /\ nw < MaxRequests
  /\ \E r \in Plain("DELETE") : Serve(r, "uid")

MKCOL ==
  /\ nw < MaxRequests
  /\ \E r \in Plain("MKCOL") : Serve(r, "uid")

WebDAV ==
  /\ nw < MaxRequests
  /\ \E m \in DAVMethods : \E r \in PlainAt(m, {DirFilePath}) : Serve(r, "uid")

NotAllowed ==
  /\ nw < MaxRequests
  /\ \E r \in PlainAt("TRACE", {DirFilePath}) : Serve(r, "uid")

NoReq ==
  [m |-> "", user |-> "", acl |-> 0, append |-> 0,
   write |-> 0, below |-> <<>>]

Init ==
  /\ fs \in Stores
  /\ web = WebOK
  /\ req = NoReq
  /\ resp = NoResp
  /\ nw = 0

Next ==
  \/ OPTIONS \/ GET \/ PATCH \/ POST \/ PUT
  \/ DELETE \/ MKCOL \/ WebDAV \/ NotAllowed

Spec == Init /\ [][Next]_vars

----------------------------------------------------------------------------
(* Conditional requests: one request carrying If-Match, If-None-Match on   *)
(* a prepared store                                                        *)

\* a resource of /dd/ that does not exist
NewFilePath == <<DD, <<"n">>>>

\* a body with a triple no stored document has
DocMore == {<<NewResource("d"), "e", NewResource("f")>>}

\* the tree /dd/, /dd/f without ACL document
OpenFileFS ==
  (<<>> :> DirRec) @@ (<<DD>> :> DirRec)
    @@ (NodeOf(DirFilePath) :> FileRec(DocData))

CondStores == {OpenFileFS, GuardedFileFS(DocWriteAppend)}

CondTargets == {DirPath, DirFilePath, NewFilePath}

\* header values: absent, *, the tag of an existing resource, an obsolete
\* tag, and lists of two
CurTag == Quote("cur")
OldTag == Quote("old")
IfMatches == {<<>>, <<Star>>, <<CurTag>>, <<OldTag>>, <<OldTag, CurTag>>}
IfNoneMatches ==
  {<<>>, <<Star>>, <<CurTag>>, <<OldTag>>, <<CurTag, OldTag>>, <<Star, CurTag>>}

CondRequests(ms, ctypes, links, accepts) ==
  [m : ms, path : CondTargets, user : {"", "U1"}, origin : {""},
   ctype : ctypes, body : {DocMore}, link : links, slug : {""}, part : {""},
   ifm : IfMatches, inm : IfNoneMatches, accept : accepts]

\* one request served with the whole request kept
ServeCond(r) ==
  /\ \E o \in {handle(fs, web, r, "uid")} :
       /\ fs' = o.fs
       /\ resp' = o.resp
  /\ req' = r
  /\ nw' = nw + 1
  /\ UNCHANGED web

CondRead ==
  /\ nw = 0
  /\ \E r \in CondRequests({"GET", "HEAD"}, {""}, {""}, {"", "text/html"}) :
       ServeCond(r)

CondWrite ==
  /\ nw = 0
  /\ \E r \in CondRequests(AppendWriteVerbs, {"text/turtle"},
                           {"", LDPBasicContainer}, {""}) :
       ServeCond(r)

CondDelete ==
  /\ nw = 0
  /\ \E r \in CondRequests({"DELETE"}, {""}, {""}, {""}) : ServeCond(r)

CondMkcol ==
  /\ nw = 0
  /\ \E r \in CondRequests({"MKCOL"}, {""}, {""}, {""}) : ServeCond(r)

InitCond ==
  /\ fs \in CondStores
  /\ web = WebOK
  /\ req = NoReq
  /\ resp = NoResp
  /\ nw = 0

NextCond == CondRead \/ CondWrite \/ CondDelete \/ CondMkcol

SpecCond == InitCond /\ [][NextCond]_vars

----------------------------------------------------------------------------
(* LDP creation with a Slug: several POST requests on one container, each  *)
(* a handler of its own, interleaved at the steps of the POST branch       *)

\* POST requests in one behaviour
MaxPosts == 3
Posters == 1..MaxPosts

\* POST /dd/ or POST /f with Slug f and a text/turtle body, for a leaf or
\* a container
SlugRequests ==
  [m : {"POST"}, path : {DirPath, FilePath}, user : {""}, origin : {""},
   ctype : {"text/turtle"}, body : {DocMore}, link : {"", LDPBasicContainer},
   slug : {"f"}, part : {""}, ifm : {<<>>}, inm : {<<>>}, accept : {""}]

\* a root with the directory /f/ of a one-character name, or with the
\* document /f
OneCharDirFS == (<<FF>> :> DirRec) @@ OpenFileFS
OneCharFileFS == (<<FF>> :> FileRec(DocData)) @@ OpenFileFS

\* the container alone, and the container with the child /dd/f
OpenDirFS == (<<>> :> DirRec) @@ (<<DD>> :> DirRec)
SlugStores == {OpenDirFS, OpenFileFS, OneCharDirFS}

\* variant: the name is never found taken
slotTaken_never(F, resource, slug) == FALSE

\* part_002:1015-1026: a resource named by the slug exists in the container
slotTaken(F, resource, slug) ==
  /\ slug # ""
  /\ Stat(F, AddSuffix(resource.File, slug)) \in {"dir", "file"}

\* part_002:979-1026: the answer POST gives before creating anything, 0
\* when it goes on to create
postSlot(F, r, resource, a) ==
  IF ~a.pass THEN a.status
  ELSE IF ~PrecondOK(F, r, resource) THEN 412
  ELSE IF slotTaken(F, resource, r.slug) THEN 409
  ELSE 0

\* part_002:1010-1028: resource.Path, given its "/" when it has none, with
\* the slug
slugPath(resource, slug) ==
  AddSuffix(IF HasSuffixSlash(resource.Path)
            THEN resource.Path ELSE AddSlash(resource.Path), slug)

\* part_002:1028-1195: the creation of the child named by the slug
postCreate(F, r, resource, a) ==
  IF r.link = LDPBasicContainer
  THEN postContainer(F, r, slugPath(resource, r.slug), a.www, a.status)
  ELSE IF pathInfo(F, slugPath(resource, r.slug)).panic
  THEN Out(F, -1, a.www, a.status)
  ELSE postWrite(F, r, pathInfo(F, slugPath(resource, r.slug)), TRUE,
                 a.www, a.status,
                 pathInfo(F, slugPath(resource, r.slug)).URI)

\* lock(key) of the FileLock: the key is held by a handler between its
\* lock call (part_002:976) and its return
Held(key) ==
  \E q \in Posters :
    /\ req[q].pc \in {"locked", "slot"}
    /\ pathInfo(fs, req[q].r.path).File = key

\* part_002:976: lock(resource.File)
PostLock(p) ==
  /\ req[p].pc = "start"
  /\ ~Held(pathInfo(fs, req[p].r.path).File)
  /\ req' = [req EXCEPT ![p].pc = "locked"]
  /\ UNCHANGED <<fs, web, resp, nw>>

\* part_002:979-1026: the ACL gate, the preconditions and the slug test
PostSlot(p) ==
  /\ req[p].pc = "locked"
  /\ \E st \in {postSlot(fs, req[p].r, pathInfo(fs, req[p].r.path),
                         GateAW(fs, web, req[p].r,
                                pathInfo(fs, req[p].r.path)))} :
       IF st # 0
       THEN /\ resp' = [resp EXCEPT ![p] = Resp(st, FALSE, 200, FALSE, NoLoc)]
            /\ req' = [req EXCEPT ![p].pc = "done"]
            /\ nw' = nw + 1
       ELSE /\ req' = [req EXCEPT ![p].pc = "slot"]
            /\ UNCHANGED <<resp, nw>>
  /\ UNCHANGED <<fs, web>>

\* part_002:1028-1195: the creation, the answer and the deferred unlock
PostCreate(p) ==
  /\ req[p].pc = "slot"
  /\ \E o \in {postCreate(fs, req[p].r, pathInfo(fs, req[p].r.path),
                          GateAW(fs, web, req[p].r,
                                 pathInfo(fs, req[p].r.path)))} :
       /\ fs' = o.fs
       /\ resp' = [resp EXCEPT ![p] = o.resp]
  /\ req' = [req EXCEPT ![p].pc = "done"]
  /\ nw' = nw + 1
  /\ UNCHANGED web

InitSlug ==
  /\ fs \in SlugStores
  /\ web = WebOK
  /\ req \in [Posters -> [r : SlugRequests, pc : {"start"}]]
  /\ \A p \in Posters : Stat(fs, req[p].r.path) = "dir"
  /\ resp = [p \in Posters |-> NoResp]
  /\ nw = 0

NextSlug == \E p \in Posters : PostLock(p) \/ PostSlot(p) \/ PostCreate(p)

SpecSlug == InitSlug /\ [][NextSlug]_vars

----------------------------------------------------------------------------
(* LDP containers: a POST on a container followed by a GET of it           *)

ldp_contains == "ldp:contains"

\* path + name for a name of several tokens
AppendSeg(path, seg) == [path EXCEPT ![Len(path)] = @ \o seg]

\* part_002:718-726: the resource record of the directory entry of node q
entryInfo(F, resource, q) ==
  pathInfo(F, IF IsDirNode(F, q)
              THEN AddSlash(AppendSeg(resource.Path, q[Len(q)]))
              ELSE AppendSeg(resource.Path, q[Len(q)]))

\* part_002:718-796 with the default preferences: the containment triples
\* of the listing of a directory
getContainment(F, resource) ==
  {<<NewResource(resource.URI), ldp_contains,
     NewResource(entryInfo(F, resource, q).URI)>> :
     q \in Children(F, NodeOf(resource.File))}

\* the container /dd/ empty, with a file, and guarded by an ACL
LdpStores == {OpenDirFS, OpenFileFS, GuardedFS(DocWriteAppend)}

LdpPosts ==
  [m : {"POST"}, path : {RootPath, DirPath, <<DD>>}, user : {"", "U1"},
   origin : {""}, ctype : {"", "text/turtle"}, body : {DocMore},
   link : {"", LDPBasicContainer}, slug : {"f", "n"}, part : {""},
   ifm : {<<>>}, inm : {<<>>}, accept : {""}]

LdpGets ==
  [m : {"GET"}, path : {RootPath, DirPath}, user : {"", "U1"},
   origin : {""}, ctype : {""}, body : {{}}, link : {""}, slug : {""},
   part : {""}, ifm : {<<>>}, inm : {<<>>}, accept : {""}]

LdpPost ==
  /\ nw = 0
  /\ \E r \in LdpPosts : ServeCond(r)

\* the GET that follows, its answer carrying the containment triples when
\* it is the 200 of a directory
LdpGet ==
  /\ nw = 1
  /\ \E r \in LdpGets :
       /\ resp' =
            IF /\ handle(fs, web, r, "uid").resp.status = 200
               /\ Stat(fs, pathInfo(fs, r.path).File) = "dir"
            THEN handle(fs, web, r, "uid").resp
                   @@ [body |-> getContainment(fs, pathInfo(fs, r.path))]
            ELSE handle(fs, web, r, "uid").resp
       /\ req' = r
  /\ nw' = nw + 1
  /\ UNCHANGED <<fs, web>>

InitLdp ==
  /\ fs \in LdpStores
  /\ web = WebOK
  /\ req = NoReq
  /\ resp = NoResp
  /\ nw = 0

NextLdp == LdpPost \/ LdpGet

SpecLdp == InitLdp /\ [][NextLdp]_vars

----------------------------------------------------------------------------
(* LDP creation: POST requests on the containers /dd/ and /f/, with a      *)
(* Slug and with the name newUUID yields                                   *)

MaxCreates == 2

\* part_002:1004-1009: the first six characters of two UUIDs
UUID6 == {"u1", "u2"}

\* the containers /dd/ and /f/ with the child /dd/u1 of an earlier POST
UuidChildFS == (<<DD, <<"u1">>>> :> FileRec(DocData)) @@ OneCharDirFS

CreateRequests(slugs) ==
  [m : {"POST"}, path : {DirPath, FilePath}, user : {""}, origin : {""},
   ctype : {"text/turtle"}, body : {DocMore}, link : {"", LDPBasicContainer},
   slug : slugs, part : {""}, ifm : {<<>>}, inm : {<<>>}, accept : {""}]

ServeCreate(r, uuid) ==
  /\ \E o \in {handle(fs, web, r, uuid)} :
       /\ fs' = o.fs
       /\ resp' = o.resp
  /\ req' = r
  /\ nw' = nw + 1
  /\ UNCHANGED web

CreateWithSlug ==
  /\ nw < MaxCreates
  /\ \E r \in CreateRequests({"f"}) : ServeCreate(r, "u2")

CreateWithoutSlug ==
  /\ nw < MaxCreates
  /\ \E r \in CreateRequests({""}) : \E uuid \in UUID6 : ServeCreate(r, uuid)

InitCreate ==
  /\ fs \in {OneCharDirFS, UuidChildFS}
  /\ web = WebOK
  /\ req = NoReq
  /\ resp = NoResp
  /\ nw = 0

NextCreate == CreateWithSlug \/ CreateWithoutSlug

SpecCreate == InitCreate /\ [][NextCreate]_vars

----------------------------------------------------------------------------
(* Removal and collections: DELETE, MKCOL and GET requests one after the   *)
(* other on stores holding shadow files                                    *)

\* requests served in one behaviour
MaxSteps == 2

FileMetaPath == <<DD, <<"f", METASuffix>>>>
DeepPath == <<DD, <<"n">>, <<"n">>>>
\* the URL path "//", whose relative path is empty
SlashPath == << <<>>, <<>> >>

\* /dd/f with its meta file, without ACL document
ShadowFS == (NodeOf(FileMetaPath) :> FileRec(DocData)) @@ OpenFileFS

\* the same under the ACL document /dd/.acl
GuardedShadowFS ==
  (NodeOf(FileMetaPath) :> FileRec(DocData)) @@ GuardedFileFS(DocWriteAppend)

\* the tree under a root ACL document giving Write to U1
RootAclDoc ==
  RuleOn("r1", {"Write"}, {RootPath}, {RootPath}, acl_agent, "U1")
RootGuardedFS == (<< <<ACLSuffix>> >> :> FileRec(RootAclDoc)) @@ OpenFileFS

\* the storage root alone
EmptyFS == [n \in {<<>>} |-> DirRec]

StoreStores == {ShadowFS, GuardedShadowFS, RootGuardedFS, EmptyFS}

StoreRequests(ms, paths) ==
  [m : ms, path : paths, user : {"", "U1"}, origin : {""},
   ctype : {""}, body : {{}}, link : {""}, slug : {""}, part : {""},
   ifm : {<<>>}, inm : {<<>>}, accept : {""}]

StorePaths == {DirPath, DirFilePath, FileMetaPath, DirAclPath, DeepPath}

ServeStore(r) ==
  /\ \E o \in {handle(fs, web, r, "uid")} :
       /\ fs' = o.fs
       /\ resp' = o.resp
  /\ req' = r
  /\ nw' = nw + 1
  /\ UNCHANGED web

StoreDelete ==
  /\ nw < MaxSteps
  /\ \E r \in StoreRequests({"DELETE"}, StorePaths \cup {RootPath, SlashPath}) :
       ServeStore(r)

StoreMkcol ==
  /\ nw < MaxSteps
  /\ \E r \in StoreRequests({"MKCOL"}, StorePaths) : ServeStore(r)

StoreGet ==
  /\ nw < MaxSteps
  /\ \E r \in StoreRequests({"GET"}, {DirFilePath, FileMetaPath, DirAclPath}) :
       ServeStore(r)

InitStore ==
  /\ fs \in StoreStores
  /\ web = WebOK
  /\ req = NoReq
  /\ resp = NoResp
  /\ nw = 0

NextStore == StoreDelete \/ StoreMkcol \/ StoreGet

SpecStore == InitStore /\ [][NextStore]_vars

\* part_002:481 and 507: the URI of the Link rel="acl" header, taken from
\* the record pathInfo built when the request arrived
linkAcl(F, r) == pathInfo(F, r.path).AclURI

\* part_002:37-55: the file WAC.allow reads in iteration 0 of a check made
\* for the path
enforcedAcl(F, path) == pathInfo(F, path).AclFile

----------------------------------------------------------------------------
(* Media types: one request of any verb carrying a Content-Type header     *)

\* part_002:485-486: the media type of a Content-Type header, the header
\* given as the list of its parts between ";"
dataMime(header) == header[1]

ContentTypes ==
  {<<"">>, <<"text/turtle">>, <<"text/turtle", "charset=utf-8">>,
   <<"text/plain">>, <<"text/plain", "charset=utf-8">>,
   <<"application/octet-stream">>, <<Multipart, "boundary=b">>,
   <<"", "charset=utf-8">>}

MimeVerbs ==
  {"GET", "HEAD", "OPTIONS", "PUT", "POST", "PATCH", "DELETE", "MKCOL",
   "COPY", "TRACE"}

MimeRequests(ms) ==
  [m : ms, path : CondTargets, user : {"", "U1"}, origin : {""},
   ctype : {""}, body : {DocMore}, link : {""}, slug : {""}, part : {""},
   ifm : {<<>>}, inm : {<<>>}, accept : {""}, header : ContentTypes]

\* the request as handle sees it
WithMime(q) ==
  [m |-> q.m, path |-> q.path, user |-> q.user, origin |-> q.origin,
   ctype |-> dataMime(q.header), body |-> q.body, link |-> q.link,
   slug |-> q.slug, part |-> q.part, ifm |-> q.ifm, inm |-> q.inm,
   accept |-> q.accept]

ServeMime(q) ==
  /\ \E o \in {handle(fs, web, WithMime(q), "uid")} :
       /\ fs' = o.fs
       /\ resp' = o.resp
  /\ req' = q
  /\ nw' = nw + 1
  /\ UNCHANGED web

MimeExempt ==
  /\ nw = 0
  /\ \E q \in MimeRequests({"PUT", "HEAD", "OPTIONS"}) : ServeMime(q)

MimeOther ==
  /\ nw = 0
  /\ \E q \in MimeRequests(MimeVerbs \ {"PUT", "HEAD", "OPTIONS"}) : ServeMime(q)

InitMime ==
  /\ fs \in CondStores
  /\ web = WebOK
  /\ req = NoReq
  /\ resp = NoResp
  /\ nw = 0

NextMime == MimeExempt \/ MimeOther

SpecMime == InitMime /\ [][NextMime]_vars

----------------------------------------------------------------------------
(* The FileLock: concurrent handlers, each in steps between its accesses   *)
(* to the store                                                            *)

\* handlers running in one behaviour
MaxLockers == 2
Lockers == 1..MaxLockers

\* s.Config.DataRoot of the checked configuration
DataRoot == "data/"

\* part_002:1436-1443: the strings resource.File = DataRoot + p.Path and
\* resource.Path = p.Path as lock keys
FileKey(resource) == <<DataRoot, resource.File>>
PathKey(resource) == <<"", resource.Path>>

\* variant: PATCH takes the key DELETE takes
lockKey_patchPath(m, resource) ==
  IF m \in {"DELETE", "PATCH"} THEN PathKey(resource) ELSE FileKey(resource)

\* part_002:606, 916, 976, 1198, 1289, 1315: the key of the lock call of
\* each verb
lockKey(m, resource) ==
  IF m = "DELETE" THEN PathKey(resource) ELSE FileKey(resource)

\* variant: the lock is released on the successful return only
deferred_onSuccess(status, held) == IF status >= 400 THEN held ELSE {}

\* part_002:607, 917, 977, 1199, 1290, 1316: defer unlock(), the keys the
\* handler holds once it has returned with the status
deferred(status, held) == {}

\* lock(key) blocks while a handler holds the key
Locked(key) == \E q \in Lockers : key \in req[q].held

LockBodyNames == <<"b1", "b2", "b3", "b4">>
LockBody(p) == {<<NewResource("d"), "e", NewResource(LockBodyNames[p])>>}

LockRequest(p, m, path, user, ifm, accept) ==
  [m |-> m, path |-> path, user |-> user, origin |-> "",
   ctype |-> IF m \in {"PATCH", "POST", "PUT"} THEN "text/turtle" ELSE "",
   body |-> IF m \in {"PATCH", "POST", "PUT"} THEN LockBody(p) ELSE {},
   link |-> "", slug |-> "", part |-> "", ifm |-> ifm, inm |-> <<>>,
   accept |-> accept]

LockVerbs == {"GET", "HEAD", "PATCH", "POST", "PUT", "DELETE", "MKCOL"}

\* the requests of handler p: every verb on /dd/f by nobody and by U1, and
\* the requests answered 403, 404, 406, 412 and 500
LockRequests(p) ==
  {LockRequest(p, m, DirFilePath, u, <<>>, "") : m \in LockVerbs, u \in {"", "U1"}}
    \cup {LockRequest(p, m, DirFilePath, "U1", <<OldTag>>, "") : m \in {"PATCH", "PUT"}}
    \cup {LockRequest(p, m, NewFilePath, "U1", <<>>, "") : m \in {"GET", "DELETE"}}
    \cup {LockRequest(p, "DELETE", DirPath, "U1", <<>>, ""),
          LockRequest(p, "DELETE", DirFilePath, "U2", <<>>, ""),
          LockRequest(p, "GET", DirFilePath, "U1", <<>>, "image/png")}

NoInfo == infoOf(EmptyStr, "ENOENT")

\* part_002:936-951, 1148-1161: the handler loads the stored graph before
\* it writes the merged one
ReadModifyWrite(F, r, resource) ==
  /\ r.m \in {"PATCH", "POST"}
  /\ r.ctype \in mimeParser
  /\ Stat(F, resource.File) = "file"

\* the store as the handler that loaded seen knows it: the target as loaded
Snapshot(F, resource, seen) ==
  [n \in DOMAIN F \cup {NodeOf(resource.File)} |->
     IF n = NodeOf(resource.File) THEN CHOOSE x \in seen : TRUE ELSE F[n]]

\* the handler returns with the outcome o; the deferred unlock runs
Finish(p, o) ==
  /\ fs' = o.fs
  /\ resp' = [resp EXCEPT ![p] = o.resp]
  /\ req' = [req EXCEPT ![p].pc = "done",
                         ![p].held = deferred(o.resp.status, req[p].held)]
  /\ nw' = nw + 1
  /\ UNCHANGED web

\* part_002:481-604: pathInfo, the media type and Accept tests; for GET
\* and HEAD the stat and the Read check, all before the lock call
Arrive(p) ==
  /\ req[p].pc = "start"
  /\ \E res \in {pathInfo(fs, req[p].r.path)} :
       IF Prologue(fs, req[p].r) # 0
       THEN Finish(p, Out(fs, Prologue(fs, req[p].r), FALSE, 0))
       ELSE IF /\ req[p].r.m \in {"GET", "HEAD"}
               /\ handleGET(fs, web, req[p].r, res).resp.status \in {401, 403, 404}
       THEN Finish(p, handleGET(fs, web, req[p].r, res))
       ELSE /\ req' = [req EXCEPT ![p].pc = "arrived", ![p].resource = res]
            /\ UNCHANGED <<fs, web, resp, nw>>

\* lock(key): the handler goes on once no handler holds the key
Lock(p) ==
  /\ req[p].pc = "arrived"
  /\ ~Locked(lockKey(req[p].r.m, req[p].resource))
  /\ req' = [req EXCEPT ![p].pc = "locked", ![p].took = TRUE,
                         ![p].held = {lockKey(req[p].r.m, req[p].resource)}]
  /\ UNCHANGED <<fs, web, resp, nw>>

\* part_002:919-938, 979-1149: the gate, the preconditions and g.ReadFile
\* of a PATCH or POST on a stored document
Load(p) ==
  /\ req[p].pc = "locked"
  /\ ReadModifyWrite(fs, req[p].r, req[p].resource)
  /\ \E o \in {methodSwitch(fs, web, req[p].r, req[p].resource, "uid")} :
       IF o.resp.status >= 400
       THEN Finish(p, o)
       ELSE /\ req' = [req EXCEPT ![p].pc = "read",
                                   ![p].seen = {fs[NodeOf(req[p].resource.File)]}]
            /\ UNCHANGED <<fs, web, resp, nw>>

\* part_002:940-973, 1150-1195: the merge, os.OpenFile, g.WriteFile and
\* the answer
Store(p) ==
  /\ req[p].pc = "read"
  /\ Finish(p, methodSwitch(Snapshot(fs, req[p].resource, req[p].seen), web,
                            req[p].r, req[p].resource, "uid"))

\* the other handlers past their lock call
Work(p) ==
  /\ req[p].pc = "locked"
  /\ ~ReadModifyWrite(fs, req[p].r, req[p].resource)
  /\ Finish(p, methodSwitch(fs, web, req[p].r, req[p].resource, "uid"))

InitLock ==
  /\ fs = GuardedFileFS(DocWriteAppend)
  /\ web = WebOK
  /\ req \in [Lockers -> [r : UNION {LockRequests(p) : p \in Lockers},
                           pc : {"start"}, resource : {NoInfo},
                           held : {{}}, took : {FALSE}, seen : {{}}]]
  /\ \A p \in Lockers : req[p].r \in LockRequests(p)
  /\ resp = [p \in Lockers |-> NoResp]
  /\ nw = 0

NextLock ==
  \E p \in Lockers : Arrive(p) \/ Lock(p) \/ Load(p) \/ Store(p) \/ Work(p)

SpecLock == InitLock /\ [][NextLock]_vars

\* part_002:1004-1030, 1082-1092, 1162-1187, 1240-1250, 1296: the file the
\* handler creates, truncates or removes: for a POST on a container the
\* child named by the Slug, or by the UUID without one; the target itself
\* for the other requests
openedFile(F, q) ==
  IF q.r.m = "POST" /\ Stat(F, q.resource.File) = "dir"
  THEN NodeOf(slugPath(q.resource, IF q.r.slug # "" THEN q.r.slug ELSE "uid"))
  ELSE NodeOf(q.resource.File)

\* the requests of handler p on the open container /dd/: a POST creating a
\* child, with the Slug f and without, and the verbs addressed to /dd/f
WriterRequests(p) ==
  {[LockRequest(p, "POST", DirPath, "U1", <<>>, "") EXCEPT !.slug = g] :
     g \in {"", "f"}}
    \cup {LockRequest(p, m, DirFilePath, "U1", <<>>, "") :
            m \in {"PUT", "PATCH", "DELETE", "GET"}}

InitWriters ==
  /\ fs \in {OpenDirFS, OpenFileFS}
  /\ web = WebOK
  /\ req \in [Lockers -> [r : UNION {WriterRequests(p) : p \in Lockers},
                           pc : {"start"}, resource : {NoInfo},
                           held : {{}}, took : {FALSE}, seen : {{}}]]
  /\ \A p \in Lockers : req[p].r \in WriterRequests(p)
  /\ resp = [p \in Lockers |-> NoResp]
  /\ nw = 0

SpecWriters == InitWriters /\ [][NextLock]_vars

----------------------------------------------------------------------------
(* pathInfo as a function: one call on a store                             *)

\* the input "" of pathInfo
NoURI == <<>>

\* part_002:1378-1464: Server.pathInfo(uri), uri the empty string or Base
\* followed by a URL path
pathInfoCall(F, uri) ==
  IF uri = NoURI
  THEN [err |-> TRUE, panic |-> FALSE]
  ELSE pathInfo(F, uri[2]) @@ [err |-> FALSE]

PathStores == {OneCharDirFS, OneCharFileFS, GuardedShadowFS, EmptyFS}

\* relative paths with and without trailing "/", shadows, a missing name
\* and paths through the document /dd/f
RelPaths ==
  {EmptyStr, <<FF>>, <<FF, <<>>>>, <<DD>>, DirPath, DirFilePath,
   <<DD, FF, <<>>>>, <<DD, FF, <<"n">>>>, DirAclPath, <<DD, <<METASuffix>>>>,
   <<DD, <<"f", ACLSuffix>>>>, FileMetaPath, NewFilePath, <<DD, <<"n">>, <<>>>>,
   <<FF, <<ACLSuffix>>>>, << <<ACLSuffix>> >>}

\* the same after one more "/"
URLPaths == RelPaths \cup {<< <<>> >> \o q : q \in RelPaths}

PathInputs == {NoURI} \cup {<<Base, q>> : q \in URLPaths}

PathInfoCall ==
  /\ nw = 0
  /\ \E uri \in PathInputs :
       /\ req' = uri
       /\ resp' = pathInfoCall(fs, uri)
  /\ nw' = 1
  /\ UNCHANGED <<fs, web>>

InitPath ==
  /\ fs \in PathStores
  /\ web = WebOK
  /\ req = NoURI
  /\ resp = NoResp
  /\ nw = 0

NextPathInfo == PathInfoCall

SpecPath == InitPath /\ [][NextPathInfo]_vars

----------------------------------------------------------------------------
(* GET of a container: glob, listing under a Prefer header, and the        *)
(* directory index under text/html                                         *)

PreferEmptyContainer == "http://www.w3.org/ns/ldp#PreferEmptyContainer"

stat_Directory == NewResource("stat:Directory")
stat_File == NewResource("stat:File")
ldp_Container == NewResource("ldp:Container")
ldp_BasicContainer == NewResource("ldp:BasicContainer")
stat_mtime == "stat:mtime"
stat_size == "stat:size"
Literal == <<"lit">>

\* part_002:559: strings.Contains(resource.Obj.Path, "*")
isGlob(path) == \E i \in 1..Len(path) : \E j \in 1..Len(path[i]) : path[i][j] = "*"

\* part_002:561-569: the directory of the pattern, resolved again
globResource(F, path) ==
  pathInfo(F, IF Len(path) = 1 THEN EmptyStr ELSE AddSlash(Front(path)))

\* filepath.Glob for the patterns "*" and a plain name
globMatches(F, resource, pattern) ==
  {q \in Children(F, NodeOf(resource.File)) :
     pattern = Star \/ pattern = q[Len(q)]}

\* part_002:674-690: the files of the glob the answer holds. The check
\* made for each of them is acl.AllowRead(resource.URI), resource being
\* the container
globIncluded(F, W, r, resource) ==
  {q \in globMatches(F, resource, r.path[Len(r.path)]) :
     /\ IsFileNode(F, q) /\ ~F[q].raw
     /\ Gate(F, W, r, resource, "Read").pass}

\* part_002:650-655: the triples about the container itself
rootTriples(resource) ==
  {<<NewResource(resource.URI), rdf_type, stat_Directory>>,
   <<NewResource(resource.URI), rdf_type, ldp_Container>>,
   <<NewResource(resource.URI), rdf_type, ldp_BasicContainer>>,
   <<NewResource(resource.URI), stat_mtime, Literal>>,
   <<NewResource(resource.URI), stat_size, Literal>>}

\* part_002:657-669: the triples of the container's meta file, about the
\* container when the file describes itself
metaTriples(F, resource) ==
  LET kb == ReadFile(F, resource.MetaFile) IN
  {<<IF All(kb, NewResource(resource.MetaURI), nil, nil) # {}
     THEN NewResource(resource.URI) ELSE t[1], t[2], t[3]>> : t \in kb}

\* part_002:727-790: the triples about the directory entry q; prefixed
\* tells whether the first line of a document starts with "@prefix"
childTriples(F, resource, q, showEmpty, prefixed) ==
  LET f == entryInfo(F, resource, q)
      sub == NewResource(f.URI)
  IN IF IsDirNode(F, q)
     THEN (IF showEmpty THEN {}
           ELSE {<<sub, rdf_type, stat_Directory>>,
                 <<sub, rdf_type, ldp_BasicContainer>>,
                 <<sub, rdf_type, ldp_Container>>,
                 <<sub, stat_mtime, Literal>>, <<sub, stat_size, Literal>>})
            \cup {<<sub, rdf_type, t[3]>> :
                    t \in All(ReadFile(F, f.MetaFile), sub, rdf_type, nil)}
     ELSE IF showEmpty THEN {}
          ELSE {<<sub, rdf_type, stat_File>>,
                <<sub, stat_mtime, Literal>>, <<sub, stat_size, Literal>>}
                 \cup (IF ~F[q].raw /\ prefixed
                       THEN {<<sub, rdf_type, t[3]>> :
                               t \in All(ReadFile(F, f.File), sub, rdf_type, nil)}
                       ELSE {})

\* part_002:696-797: the graph of a listing
listGraph(F, resource, showEmpty, prefixed) ==
  rootTriples(resource) \cup metaTriples(F, resource)
    \cup UNION {childTriples(F, resource, q, showEmpty, prefixed) :
                 q \in Children(F, NodeOf(resource.File))}
    \cup getContainment(F, resource)

NoFile == <<>>

\* part_002:626-647: the loop over s.Config.DirIndex from its entry i on
RECURSIVE dirIndexLoop(_, _, _, _)
dirIndexLoop(F, r, resource, i) ==
  IF i > Len(r.dirIndex) THEN [status |-> 200, served |-> NoFile]
  ELSE IF Stat(F, AddSuffix(resource.File, r.dirIndex[i])) \in {"dir", "file"}
  THEN [status |-> 200,
        served |-> pathInfo(F, AddSuffix(resource.Path, r.dirIndex[i])).File]
  ELSE IF r.m # "HEAD" THEN [status |-> 303, served |-> NoFile]
  ELSE dirIndexLoop(F, r, resource, i + 1)

\* the answer of a GET or HEAD with its graph (body), the files whose
\* triples a glob appended to it, and the file served in its place
Listing(rsp, body, appended, served) ==
  rsp @@ [body |-> body, appended |-> appended, served |-> served]

\* part_002:548-913: GET and HEAD with the representation of a container
getContainer(F, W, r, prefixed) ==
  LET resource == IF isGlob(r.path) THEN globResource(F, r.path)
                  ELSE pathInfo(F, r.path)
      base == IF Prologue(F, r) # 0
              THEN Out(F, Prologue(F, r), FALSE, 0).resp
              ELSE handleGET(F, W, r, resource).resp
  IN IF base.status # 200 \/ Stat(F, resource.File) # "dir"
     THEN Listing(base, {}, {}, NoFile)
     ELSE IF Len(r.dirIndex) > 0 /\ r.accept = "text/html"
     THEN Listing([base EXCEPT !.status = dirIndexLoop(F, r, resource, 1).status],
                 {}, {}, dirIndexLoop(F, r, resource, 1).served)
     ELSE IF isGlob(r.path)
     THEN Listing(base,
                 rootTriples(resource) \cup metaTriples(F, resource)
                   \cup {<<NewResource(resource.URI), ldp_contains,
                           NewResource(entryInfo(F, resource, q).URI)>> :
                           q \in globIncluded(F, W, r, resource)},
                 {entryInfo(F, resource, q).File :
                    q \in globIncluded(F, W, r, resource)},
                 NoFile)
     ELSE Listing(base,
                 listGraph(F, resource, r.prefer = PreferEmptyContainer, prefixed),
                 {}, NoFile)

SubMetaPath == <<DD, DD, <<METASuffix>>>>
FileAclPath == <<DD, <<"f", ACLSuffix>>>>
IX1 == <<"ix1">>
IX2 == <<"ix2">>

\* the document /dd/f typing itself
ListDoc == {<<NewResource(URIOf(DirFilePath)), rdf_type, NewResource("x:Doc")>>}

\* the ACL of /dd/f: Read for U1 alone
FileAclDoc ==
  RuleOn(NewResource(URIOf(FileAclPath)), {"Read"}, {DirFilePath}, {},
         acl_agent, "U1")

\* the meta file of /dd/dd/ typing it
SubMetaDoc == {<<NewResource(URIOf(SubDirPath)), rdf_type, NewResource("x:Kind")>>}

\* /dd/ with the document f; then with f under its own ACL and the
\* container dd described by its meta file; then with index files
PlainFS ==
  (<<>> :> DirRec) @@ (<<DD>> :> DirRec)
    @@ (NodeOf(DirFilePath) :> FileRec(ListDoc))
ListFS ==
  (NodeOf(FileAclPath) :> FileRec(FileAclDoc))
    @@ (NodeOf(SubDirPath) :> DirRec)
    @@ (NodeOf(SubMetaPath) :> FileRec(SubMetaDoc))
    @@ PlainFS
SecondIndexFS == (<<DD, IX2>> :> RawRec) @@ ListFS
BothIndexFS == (<<DD, IX1>> :> RawRec) @@ SecondIndexFS

ListStores == {PlainFS, ListFS, SecondIndexFS, BothIndexFS}

ListRequests(ms, paths, prefers, accepts, indexes) ==
  [m : ms, path : paths, user : {"", "U1"}, origin : {""},
   ctype : {""}, body : {{}}, link : {""}, slug : {""}, part : {""},
   ifm : {<<>>}, inm : {<<>>}, accept : accepts,
   prefer : prefers, dirIndex : indexes]

ServeList(r) ==
  /\ \E prefixed \in BOOLEAN : resp' = getContainer(fs, web, r, prefixed)
  /\ req' = r
  /\ nw' = nw + 1
  /\ UNCHANGED <<fs, web>>

ListGlob ==
  /\ nw = 0
  /\ \E r \in ListRequests({"GET"}, {<<DD, Star>>, <<DD, FF>>, <<Star>>},
                            {""}, {""}, {<<>>, <<"ix1", "ix2">>}) :
       isGlob(r.path) /\ ServeList(r)

ListPrefer ==
  /\ nw = 0
  /\ \E r \in ListRequests({"GET"}, {DirPath, RootPath, SubDirPath},
                            {"", PreferEmptyContainer}, {""},
                            {<<>>, <<"ix1", "ix2">>}) :
       ServeList(r)

ListIndex ==
  /\ nw = 0
  /\ \E r \in ListRequests({"GET", "HEAD"}, {DirPath, RootPath}, {""},
                            {"text/html"},
                            {<<>>, <<"ix1">>, <<"ix2">>, <<"ix1", "ix2">>,
                             <<"ix2", "ix1">>}) :
       ServeList(r)

InitList ==
  /\ fs \in ListStores
  /\ web = WebOK
  /\ req = NoReq
  /\ resp = NoResp
  /\ nw = 0

NextList == ListGlob \/ ListPrefer \/ ListIndex

SpecList == InitList /\ [][NextList]_vars

----------------------------------------------------------------------------
(* Secure tokens.  nw is the clock, in minutes; req holds the token last   *)
(* minted and resp the last validation                                     *)

MaxClock == 4

\* part_002:142: validity := 1 * time.Minute
Validity == 1

TokenTypes == {"WWW-Authenticate", "Recovery"}

\* securecookie Encode: the envelope binds the name and the values under
\* a MAC; sealed tells whether the MAC is the server's
Encode(name, values) == [name |-> name, values |-> values, sealed |-> TRUE]

\* securecookie Decode: the values of an envelope made under this name by
\* this server.  The codec's own age limit (30 days) lies beyond MaxClock
Decode(name, token) ==
  IF token.sealed /\ token.name = name
  THEN [values |-> token.values, err |-> FALSE]
  ELSE [values |-> <<>>, err |-> TRUE]

\* part_000:157-166, now being time.Now()
NewSecureToken(tokenType, values, duration, now) ==
  Encode(tokenType, values @@ [valid |-> now + duration])

\* part_000:168-177
ValidateSecureToken(tokenType, token) ==
  IF Decode(tokenType, token).err
  THEN [values |-> <<>>, err |-> TRUE]
  ELSE [values |-> Decode(tokenType, token).values, err |-> FALSE]

NoToken == [name |-> "", values |-> [secret |-> "", valid |-> 0], sealed |-> FALSE]
NoValidation == [checked |-> FALSE, err |-> TRUE, at |-> 0, token |-> NoToken]

\* a call of NewSecureToken for an account recovery
TokenMint ==
  /\ \E d \in 1..2 :
       req' = NewSecureToken("Recovery", [secret |-> "salt"], d, nw)
  /\ UNCHANGED <<fs, web, resp, nw>>

\* part_002:136-150: the nonce of the challenge sent to an anonymous
\* requester
TokenChallenge ==
  /\ req' = NewSecureToken("WWW-Authenticate", [secret |-> "salt"], Validity, nw)
  /\ UNCHANGED <<fs, web, resp, nw>>

\* a minute passes
TokenTick ==
  /\ nw < MaxClock
  /\ nw' = nw + 1
  /\ UNCHANGED <<fs, web, req, resp>>

\* a call of ValidateSecureToken on the token minted, or on a forgery of it
TokenValidate ==
  /\ req # NoToken
  /\ \E t \in TokenTypes, sealed \in BOOLEAN :
       LET token == [req EXCEPT !.sealed = sealed] IN
       resp' = [checked |-> TRUE, err |-> ValidateSecureToken(t, token).err,
                at |-> nw, token |-> token, type |-> t]
  /\ UNCHANGED <<fs, web, req, nw>>

InitToken ==
  /\ fs = PlainFS
  /\ web = WebOK
  /\ req = NoToken
  /\ resp = NoValidation @@ [type |-> ""]
  /\ nw = 0

NextToken == TokenMint \/ TokenChallenge \/ TokenTick \/ TokenValidate

SpecToken == InitToken /\ [][NextToken]_vars

----------------------------------------------------------------------------
(* Requests on a store whose ACL gives Write, and no Append, to everyone   *)

DocPublicWrite ==
  RuleOn("r1", {"Write"}, {DirPath, DirFilePath, DirAclPath}, {DirPath},
         acl_agentClass, "foaf:Agent")

InitChallenge ==
  /\ fs \in {GuardedFS(DocPublicWrite), GuardedFileFS(DocPublicWrite)}
  /\ web = WebOK
  /\ req = NoReq
  /\ resp = NoResp
  /\ nw = 0

SpecChallenge == InitChallenge /\ [][Next]_vars

----------------------------------------------------------------------------
(* Handlers whose ACL names a group document stored on this server.  req   *)
(* holds the tasks of the server: the requests of clients and the GETs     *)
(* that Graph.LoadURI sends to the server itself                           *)

MaxTasks == 4
Tasks == 1..MaxTasks
Clients == {1, 2}

\* the group document /dd/g and its URI as ACL documents write it
GroupPath == <<DD, <<"g">>>>
LocalGroup == "https://localhost/dd/g"
LocalGroupDoc ==
  {<<NewResource(LocalGroup), rdf_type, foaf_Group>>,
   <<NewResource(LocalGroup), foaf_member, NewResource("U1")>>}

\* the path of a URI this server serves
hostedPath(uri) == GroupPath

\* ACL documents of /dd/: members of the group may write and everyone may
\* read; members of the group alone may read and write
DocGroupWrite ==
  RuleOn("r1", {"Write"}, {DirPath, DirFilePath, GroupPath}, {DirPath},
         acl_agentClass, LocalGroup)
    \cup RuleOn("r2", {"Read"}, {DirPath, DirFilePath, GroupPath}, {DirPath},
                acl_agentClass, "foaf:Agent")
DocGroupOnly ==
  RuleOn("r1", {"Read", "Write"}, {DirPath, DirFilePath, GroupPath}, {DirPath},
         acl_agentClass, LocalGroup)

GroupFS(d) == (NodeOf(GroupPath) :> FileRec(LocalGroupDoc)) @@ GuardedFileFS(d)

\* part_002:60-133: the group documents the rules of the ACL graph name
\* for a user that is neither owner nor agent of the rule
groupsNamed(g, accessType, uri, mode, user, origin) ==
  {debrack(TermString(t[3])) :
     t \in {x \in g :
              /\ x[2] = acl_agentClass /\ x[3] # foaf_Agent
              /\ \E i \in All(g, x[1], acl_mode, nil) :
                    /\ i[3] \in {NewResource("Control"), NewResource(mode)}
                    /\ All(g, x[1], accessType, NewResource(uri)) # {}
                    /\ (i[3] = NewResource(mode) => OriginPasses(g, x[1], origin))
                    /\ All(g, x[1], acl_owner, NewResource(user)) = {}
                    /\ All(g, x[1], acl_agent, NewResource(user)) = {}}}

\* part_002:36-181: the group documents WAC.allow may load, from
\* iteration i on
RECURSIVE loadsLoop(_, _, _, _, _, _, _, _)
loadsLoop(F, mode, user, origin, i, n, path, accessType) ==
  IF i >= n THEN {}
  ELSE
    LET p == pathInfo(F, path) IN
    IF ~p.Exists
    THEN loadsLoop(F, mode, user, origin, i + 1, n, path, accessType)
    ELSE IF Cardinality(ReadFile(F, p.AclFile)) > 0
    THEN groupsNamed(ReadFile(F, p.AclFile), accessType, p.URI, mode, user, origin)
    ELSE IF i # 0 /\ StrLen(p.Path) = 0
         THEN {}
         ELSE loadsLoop(F, mode, user, origin, i + 1, n,
                        NextPath(i, p), acl_defaultForNew)

loads(F, r, resource) ==
  loadsLoop(F, IF r.m \in {"GET", "HEAD"} THEN "Read" ELSE "Write",
            r.user, r.origin, 0, Depth(resource), resource.Path, acl_accessTo)

\* Graph.LoadURI gives up waiting for the answer: the fetch has a bounded
\* timeout and yields the empty graph
LoadTimeout(t) == t.pc = "fetching"

\* variant: the fetch waits for its answer without limit
LoadTimeout_never(t) == FALSE

NoTask ==
  [r |-> LockRequest(1, "GET", DirFilePath, "", <<>>, ""), pc |-> "free",
   resource |-> NoInfo, held |-> {}, parent |-> 0, graph |-> {}]

\* the requests of clients: the first deletes or reads the group document
\* /dd/g as the member U1, or makes a collection as nobody; the second
\* deletes the group document as well or reads /dd/f as nobody
ProgressRequests(p) ==
  IF p = 1
  THEN {LockRequest(p, "DELETE", GroupPath, "U1", <<>>, ""),
        LockRequest(p, "GET", GroupPath, "U1", <<>>, ""),
        LockRequest(p, "MKCOL", DirFilePath, "", <<>>, "")}
  ELSE {LockRequest(p, "DELETE", GroupPath, "U1", <<>>, ""),
        LockRequest(p, "GET", DirFilePath, "", <<>>, "")}

\* the GET Graph.LoadURI sends for the group document
FetchRequest == LockRequest(1, "GET", hostedPath(LocalGroup), "", <<>>, "")

\* the stores the tasks can leave, the graphs a fetch can yield, and the
\* records pathInfo can give for the requests
ProgressStores ==
  {GroupFS(d) : d \in {DocGroupWrite, DocGroupOnly}}
    \cup {GuardedFileFS(d) : d \in {DocGroupWrite, DocGroupOnly}}
ProgressGraphs == {{}, LocalGroupDoc}
ProgressTargets ==
  {<<q, pathInfo(F, q.path)>> :
     q \in ProgressRequests(1) \cup ProgressRequests(2) \cup {FetchRequest},
     F \in ProgressStores}

\* loads and the method switch over these stores, graphs and requests
loadsOf ==
  [F \in ProgressStores, k \in ProgressTargets |-> loads(F, k[1], k[2])]
answerOf ==
  [F \in ProgressStores, g \in ProgressGraphs, k \in ProgressTargets |->
     methodSwitch(F, [x \in {LocalGroup} |-> g], k[1], k[2], "uid")]

\* part_002:481: the request arrives; GET goes to its Read check
\* (part_002:600), the other verbs to their lock call
TaskArrive(p) ==
  /\ req[p].pc = "start"
  /\ req' = [req EXCEPT ![p].resource = pathInfo(fs, req[p].r.path),
                         ![p].pc = IF req[p].r.m = "GET" THEN "check" ELSE "wait"]
  /\ UNCHANGED <<fs, web, resp, nw>>

\* lock(key): part_002:606 for GET, past its Read check; 1289 and 1315 for
\* DELETE and MKCOL, before their Write check
TaskLock(p) ==
  /\ req[p].pc = "wait"
  /\ ~\E q \in Tasks : lockKey(req[p].r.m, req[p].resource) \in req[q].held
  /\ req' = [req EXCEPT ![p].held = {lockKey(req[p].r.m, req[p].resource)},
                         ![p].pc = IF req[p].r.m = "GET" THEN "serve" ELSE "check"]
  /\ UNCHANGED <<fs, web, resp, nw>>

\* WAC.allow reaches a rule naming a group: LoadURI sends a GET for the
\* group document to this server, which runs it as the task c when it can
\* accept it
TaskFetch(p) ==
  /\ req[p].pc = "check"
  /\ loadsOf[fs, <<req[p].r, req[p].resource>>] # {}
  /\ \/ \E c \in Tasks \ Clients :
          /\ req[c].pc = "free"
          /\ \A d \in Tasks \ Clients : req[d].pc = "free" => c <= d
          /\ req' = [req EXCEPT
                       ![p].pc = "fetching",
                       ![c] = [NoTask EXCEPT
                                 !.r = FetchRequest,
                                 !.pc = "start", !.parent = p]]
     \/ /\ \A c \in Tasks \ Clients : req[c].pc # "free"
        /\ req' = [req EXCEPT ![p].pc = "fetching"]
  /\ UNCHANGED <<fs, web, resp, nw>>

\* the answer of the fetch arrives: the graph of a 200, no graph otherwise
TaskAnswer(p) ==
  /\ req[p].pc = "fetching"
  /\ \E c \in Tasks \ Clients :
       /\ req[c].parent = p /\ req[c].pc = "done"
       /\ req' = [req EXCEPT ![p].pc = "decide",
                              ![p].graph = IF resp[c].status = 200
                                           THEN req[c].graph ELSE {},
                              ![c] = NoTask]
       /\ resp' = [resp EXCEPT ![c] = NoResp]
  /\ UNCHANGED <<fs, web, nw>>

\* the fetch times out: the group graph is empty; the task that serves
\* the fetch runs on without a client
TaskTimeout(p) ==
  /\ LoadTimeout(req[p])
  /\ req' = [q \in Tasks |->
               IF q = p THEN [req[p] EXCEPT !.pc = "decide", !.graph = {}]
               ELSE IF req[q].parent = p THEN [req[q] EXCEPT !.parent = 0]
               ELSE req[q]]
  /\ UNCHANGED <<fs, web, resp, nw>>

\* the handler returns with the outcome o; the deferred unlock runs.  A
\* task without client leaves its slot
TaskFinish(p, o, graph) ==
  /\ fs' = o.fs
  /\ resp' = [resp EXCEPT ![p] = IF p \notin Clients /\ req[p].parent = 0
                                 THEN NoResp ELSE o.resp]
  /\ req' = [req EXCEPT
               ![p] = IF p \notin Clients /\ req[p].parent = 0 THEN NoTask
                      ELSE [req[p] EXCEPT
                              !.pc = "done", !.graph = graph,
                              !.held = deferred(o.resp.status, req[p].held)]]
  /\ nw' = nw
  /\ UNCHANGED web

\* the decision of WAC.allow and what follows it up to the return, or up
\* to the lock call of a GET that may read
TaskDecide(p) ==
  /\ \/ req[p].pc = "decide"
     \/ req[p].pc = "check" /\ loadsOf[fs, <<req[p].r, req[p].resource>>] = {}
  /\ \E o \in {answerOf[fs, req[p].graph, <<req[p].r, req[p].resource>>]} :
       IF req[p].r.m = "GET" /\ o.resp.status \notin {401, 403, 404}
       THEN /\ req' = [req EXCEPT ![p].pc = "wait"]
            /\ UNCHANGED <<fs, web, resp, nw>>
       ELSE TaskFinish(p, o, {})

\* part_002:606-913: GET past its lock call
TaskServe(p) ==
  /\ req[p].pc = "serve"
  /\ \E o \in {answerOf[fs, req[p].graph, <<req[p].r, req[p].resource>>]} :
       TaskFinish(p, o, IF o.resp.status = 200
                        THEN ReadFile(fs, req[p].resource.File) ELSE {})

TaskStep(p) ==
  \/ TaskArrive(p) \/ TaskLock(p) \/ TaskFetch(p) \/ TaskAnswer(p)
  \/ TaskTimeout(p) \/ TaskDecide(p) \/ TaskServe(p)

InitProgress ==
  /\ fs \in {GroupFS(DocGroupWrite), GroupFS(DocGroupOnly)}
  /\ web = [x \in {LocalGroup} |-> {}]
  /\ \E a \in ProgressRequests(1), b \in ProgressRequests(2) :
       req = [p \in Tasks |->
                IF p = 1 THEN [NoTask EXCEPT !.r = a, !.pc = "start"]
                ELSE IF p = 2 THEN [NoTask EXCEPT !.r = b, !.pc = "start"]
                ELSE NoTask]
  /\ resp = [p \in Tasks |-> NoResp]
  /\ nw = 0

NextProgress == \E p \in Tasks : TaskStep(p)

\* every task that can take a step eventually takes one: the runtime
\* schedules every runnable goroutine, and the timer of a fetch fires
SpecProgress ==
  InitProgress /\ [][NextProgress]_vars /\ \A p \in Tasks : WF_vars(TaskStep(p))

----------------------------------------------------------------------------
(* Access control read off the ACL documents, as the specification states  *)
(* it; the statements below compare WAC.allow with it                      *)

\* the target and its ancestors, in the order of the upward walk
ChainOf(P) ==
  CASE P = RootPath -> <<RootPath>>
    [] P = DirPath -> <<DirPath, RootPath>>
    [] P = FilePath -> <<FilePath, RootPath>>
    [] P = SubDirPath -> <<SubDirPath, DirPath, RootPath>>
    [] P = DirFilePath -> <<DirFilePath, DirPath, RootPath>>

AclOf(X) == ReadFile(fs, AddSuffix(X, ACLSuffix))

AccessTypeAt(k) == IF k = 1 THEN acl_accessTo ELSE acl_defaultForNew

SubjectsOf(g) == {t[1] : t \in g}

IsMember(user, G) ==
  /\ G \in DOMAIN web
  /\ <<NewResource(G), rdf_type, foaf_Group>> \in web[G]
  /\ <<NewResource(G), foaf_member, NewResource(user)>> \in web[G]

\* S names the requester as owner, agent, foaf:Agent or group member
NamesAgent(g, S, user) ==
  \/ <<S, acl_owner, NewResource(user)>> \in g
  \/ <<S, acl_agent, NewResource(user)>> \in g
  \/ <<S, acl_agentClass, foaf_Agent>> \in g
  \/ \E G \in {GroupURI} :
        <<S, acl_agentClass, NewResource(G)>> \in g /\ IsMember(user, G)

\* S is an authorization of mode m for the resource X under access type at
RuleFor(g, S, m, at, X) ==
  /\ <<S, acl_mode, NewResource(m)>> \in g
  /\ <<S, at, NewResource(URIOf(X))>> \in g

OriginsOf(g, S) == {t[3] : t \in {u \in g : u[1] = S /\ u[2] = acl_origin}}

\* S lists no origin, or the request has none, or S lists the request's
OriginAdmitted(g, S, origin) ==
  origin = "" \/ OriginsOf(g, S) = {} \/ NewResource(origin) \in OriginsOf(g, S)

\* the document g grants the request on X
Grants(g, at, X, mode, user, origin) ==
  \E S \in SubjectsOf(g) :
    \/ RuleFor(g, S, "Control", at, X) /\ NamesAgent(g, S, user)
    \/ /\ RuleFor(g, S, mode, at, X)
       /\ OriginAdmitted(g, S, origin)
       /\ NamesAgent(g, S, user)

\* position in the chain of the nearest resource with a non-empty ACL, 0
\* when there is none among the first n
Nearest(P, n) ==
  LET c == ChainOf(P)
      ks == {k \in 1..n : k <= Len(c) /\ AclOf(c[k]) # {}}
  IN IF ks = {} THEN 0 ELSE CHOOSE k \in ks : \A j \in ks : k <= j

Called == req.m = "allow" /\ resp # NoResp

\* the number of iterations of the walk: one per "/"-separated element of
\* the canonical path
WalkLen(P) == Len(P)

\* position, graph, access type and resource of the ACL the walk stops at
AuthK == Nearest(req.path, WalkLen(req.path))
AuthX == ChainOf(req.path)[AuthK]
AuthG == AclOf(AuthX)
AuthT == AccessTypeAt(AuthK)

Refused == resp.status \in {401, 403}

----------------------------------------------------------------------------
(* Statements about WAC.allow, checked under SpecWAC                       *)

\* C3 (as claimed): for a directory D with a non-empty ACL and an existing
\* descendant R with no non-empty ACL on R or between D and R, the decision
\* for R is 200 exactly for the agents a defaultForNew <D> rule of D's ACL
\* matches, and 401/403 for the others.
C3_AncestorInheritance ==
  Called =>
    \A D \in AncestorsOf(req.path) :
      (/\ AclOf(D) # {}
       /\ \A X \in ({req.path} \cup AncestorsOf(req.path)) \ ({D} \cup AncestorsOf(D)) :
            AclOf(X) = {})
      => IF Grants(AclOf(D), acl_defaultForNew, D, req.mode, req.user, req.origin)
         THEN resp.status = 200
         ELSE Refused

\* C4: when the first non-empty ACL the walk finds holds no rule matching
\* the request, allow answers 401/403, whatever the ACLs above it hold.
C4_FirstAclAuthoritative ==
  (Called /\ AuthK # 0
     /\ ~Grants(AuthG, AuthT, AuthX, req.mode, req.user, req.origin))
  => Refused

C4_Witness ==
  /\ Called /\ AuthK # 0 /\ resp.status = 403
  /\ ~Grants(AuthG, AuthT, AuthX, req.mode, req.user, req.origin)
  /\ \E j \in (AuthK + 1)..Len(ChainOf(req.path)) :
       Grants(AclOf(ChainOf(req.path)[j]), acl_defaultForNew,
              ChainOf(req.path)[j], req.mode, req.user, req.origin)

\* C5: when neither the target nor any ancestor up to the root has a
\* non-empty ACL graph, allow answers 200 for every mode, user and Origin.
C5_OpenResource ==
  (Called /\ Nearest(req.path, Len(ChainOf(req.path))) = 0)
  => resp.status = 200

C5_Witness ==
  /\ Called /\ Nearest(req.path, Len(ChainOf(req.path))) = 0
  /\ req.path = DirFilePath /\ req.user = "" /\ req.origin = "O2"
  /\ req.mode = "Control" /\ resp.status = 200

C7_ControlGrantsAll ==
  (Called /\ AuthK # 0
     /\ \E S \in SubjectsOf(AuthG) :
          RuleFor(AuthG, S, "Control", AuthT, AuthX) /\ NamesAgent(AuthG, S, req.user))
  => resp.status = 200

C7_Witness ==
  /\ Called /\ AuthK > 1 /\ req.mode = "Write" /\ req.origin = "O2"
  /\ resp.status = 200
  /\ \E S \in SubjectsOf(AuthG) :
       /\ RuleFor(AuthG, S, "Control", AuthT, AuthX)
       /\ NamesAgent(AuthG, S, req.user)
       /\ OriginsOf(AuthG, S) = {NewResource("O1")}

\* a rule of the authoritative ACL for the requested mode, the resource and
\* the requester that lists origins, none of them the request's Origin
ConfinedBy(S) ==
  /\ RuleFor(AuthG, S, req.mode, AuthT, AuthX)
  /\ NamesAgent(AuthG, S, req.user)
  /\ OriginsOf(AuthG, S) # {}
  /\ NewResource(req.origin) \notin OriginsOf(AuthG, S)

\* the rule grants the request whatever S does
GrantsApart(S2) ==
  \/ RuleFor(AuthG, S2, "Control", AuthT, AuthX) /\ NamesAgent(AuthG, S2, req.user)
  \/ /\ RuleFor(AuthG, S2, req.mode, AuthT, AuthX)
     /\ NamesAgent(AuthG, S2, req.user)
     /\ (OriginsOf(AuthG, S2) = {} \/ NewResource(req.origin) \in OriginsOf(AuthG, S2))

OriginRule(S) ==
  /\ RuleFor(AuthG, S, req.mode, AuthT, AuthX)
  /\ NamesAgent(AuthG, S, req.user)
  /\ OriginsOf(AuthG, S) # {}

Listed(S) == req.origin = "" \/ NewResource(req.origin) \in OriginsOf(AuthG, S)

\* another rule than S grants the request
OtherGrants(S) ==
  \E S2 \in SubjectsOf(AuthG) \ {S} :
    \/ RuleFor(AuthG, S2, "Control", AuthT, AuthX) /\ NamesAgent(AuthG, S2, req.user)
    \/ /\ RuleFor(AuthG, S2, req.mode, AuthT, AuthX)
       /\ NamesAgent(AuthG, S2, req.user)
       /\ OriginAdmitted(AuthG, S2, req.origin)

\* C10 (as claimed): an agent matched by a rule S of the requested mode
\* that lists origins gets 200 without Origin header and with a listed
\* Origin, and is refused with an unlisted Origin when no other rule matches.
C10_OriginFilter_Claimed ==
  (Called /\ AuthK # 0) =>
    \A S \in SubjectsOf(AuthG) :
      OriginRule(S) =>
        /\ Listed(S) => resp.status = 200
        /\ (~Listed(S) /\ ~OtherGrants(S)) => Refused

\* C10 (amended): the same, the refusal holding when S is not itself a
\* Control authorization for the resource.
C10_OriginFilter ==
  (Called /\ AuthK # 0) =>
    \A S \in SubjectsOf(AuthG) :
      OriginRule(S) =>
        /\ Listed(S) => resp.status = 200
        /\ (/\ ~Listed(S) /\ ~OtherGrants(S)
            /\ ~RuleFor(AuthG, S, "Control", AuthT, AuthX)) => Refused

C10_Witness ==
  /\ Called /\ AuthK # 0 /\ req.origin = "O1" /\ req.mode = "Read"
  /\ resp.status = 200
  /\ \E S \in SubjectsOf(AuthG) : OriginRule(S) /\ ~OtherGrants(S)

----------------------------------------------------------------------------
(* Statements about the verb handlers, checked under Spec                  *)

Answered == req.m \in MutatingVerbs /\ req.acl \in {401, 403}

\* C1: when the ACL decision on a PATCH, POST, PUT, DELETE, MKCOL, COPY,
\* MOVE, LOCK or UNLOCK request is 401 or 403, the response carries that
\* status, the store is left as it was and the WebDAV handler is not called.
C1_RefusalChangesNothing ==
  [][(req'.m \in MutatingVerbs /\ req'.acl \in {401, 403})
       => (resp'.status = req'.acl /\ fs' = fs /\ ~resp'.dav)]_vars

C1_Witness ==
  /\ Answered /\ req.m = "DELETE" /\ req.acl = 403 /\ resp.status = 403
  /\ NodeOf(DirFilePath) \in DOMAIN fs

\* the ACL of the directory q.below grants the creating request q by a
\* defaultForNew authorization naming that directory
InheritedGrant(F, q) ==
  \E mode \in IF q.m = "MKCOL" THEN {"Write"} ELSE {"Append", "Write"} :
    Grants(ReadFile(F, AddSuffix(q.below, ACLSuffix)), acl_defaultForNew,
           q.below, mode, q.user, "")

\* C2 (as claimed): a creating request on a URI that does not exist, below
\* the directory D holding the nearest non-empty ACL, that no defaultForNew
\* authorization of D's ACL grants, is answered 401/403 and creates nothing.
C2_CreationNeedsInheritedGrant ==
  [][(req'.below # <<>> /\ ~InheritedGrant(fs, req'))
       => (resp'.status \in {401, 403} /\ fs' = fs)]_vars

\* C8: a PATCH, POST or PUT request passes the gate exactly when allow
\* answers 200 for Append or for Write, and when both refuse the response
\* carries the status of the Write check.
C8_WriteSubsumesAppend ==
  (req.m \in AppendWriteVerbs /\ req.append # 0) =>
    /\ (req.append = 200 \/ req.write = 200) <=> resp.status \notin {401, 403}
    /\ (req.append # 200 /\ req.write # 200) => resp.status = req.write

C8_Witness ==
  /\ req.m = "PUT" /\ req.append = 403 /\ req.write = 200
  /\ resp.status = 201

----------------------------------------------------------------------------
(* Group matching, checked under SpecWAC                                   *)

\* S is consulted for the request: a Control authorization for the walked
\* resource, or one for the requested mode that the Origin admits
Consulted(S) ==
  \/ RuleFor(AuthG, S, "Control", AuthT, AuthX)
  \/ RuleFor(AuthG, S, req.mode, AuthT, AuthX)
       /\ OriginAdmitted(AuthG, S, req.origin)

\* a consulted authorization names the requester directly
NamedDirectly ==
  \E S \in SubjectsOf(AuthG) :
    /\ Consulted(S)
    /\ \/ <<S, acl_owner, NewResource(req.user)>> \in AuthG
       \/ <<S, acl_agent, NewResource(req.user)>> \in AuthG
       \/ <<S, acl_agentClass, foaf_Agent>> \in AuthG

\* the document fetched from G is non-empty, types G as a group and lists
\* the requester as a member of G
GroupDeclares(G) ==
  /\ G \in DOMAIN web
  /\ web[G] # {}
  /\ <<NewResource(G), rdf_type, foaf_Group>> \in web[G]
  /\ <<NewResource(G), foaf_member, NewResource(req.user)>> \in web[G]

NamedByGroup ==
  \E S \in SubjectsOf(AuthG) :
    /\ Consulted(S)
    /\ \E G \in {GroupURI, SubGroupURI} :
         <<S, acl_agentClass, NewResource(G)>> \in AuthG /\ GroupDeclares(G)

\* C11: when no consulted authorization names the requester directly, allow
\* answers 200 exactly when one of them names a group whose fetched document
\* is non-empty, types it foaf:Group and lists the requester as member; a
\* group of groups or a failed fetch gives a refusal, never another answer.
C11_GroupMatching ==
  (Called /\ AuthK # 0 /\ ~NamedDirectly) =>
    /\ resp.status = 200 <=> NamedByGroup
    /\ resp.status \in {200, 401, 403}

\* U2 is a member of G2, G2 a member of G1, and the rule names G1
C11_Witness ==
  /\ Called /\ AuthK # 0 /\ ~NamedDirectly /\ web = WebNested
  /\ req.user = "U2" /\ resp.status = 403
  /\ \E S \in SubjectsOf(AuthG) :
       Consulted(S) /\ <<S, acl_agentClass, NewResource(GroupURI)>> \in AuthG

----------------------------------------------------------------------------
(* Delegation, checked under SpecDelegation                                *)

\* the profile fetched from the URI the header names states that this URI
\* delegates to the authenticated user
ProfileDelegates ==
  /\ req.onBehalfOf # <<>>
  /\ \E D \in {"U1", "U2"} :
       /\ req.onBehalfOf = brack(D)
       /\ D \in DOMAIN web
       /\ <<NewResource(D), acl_delegates, NewResource(req.user)>> \in web[D]

\* C12: a request by U carrying On-Behalf-Of: <D> is decided for D exactly
\* when D's profile holds <D> acl:delegates <U>; otherwise it is decided for
\* U, and in both cases the answer is an ordinary decision.
C12_Delegation ==
  (req.m = "allow" /\ resp # NoResp) =>
    /\ ProfileDelegates => req.onBehalfOf = brack(req.acluser)
    /\ ~ProfileDelegates => req.acluser = req.user
    /\ resp = allow(fs, web, req.mode, req.acluser, req.origin, req.path)
    /\ resp.status \in {200, 401, 403}

\* U2 acts for U1 and is granted what only U1 is granted
C12_Witness ==
  /\ req.m = "allow" /\ req.user = "U2" /\ req.onBehalfOf = brack("U1")
  /\ ProfileDelegates /\ req.acluser = "U1" /\ resp.status = 200
  /\ allow(fs, web, req.mode, "U2", req.origin, req.path).status = 403

\* the header names a profile that does not delegate: decided for U2
C12_WitnessNoDelegation ==
  /\ req.m = "allow" /\ req.user = "U2" /\ req.onBehalfOf = brack("U1")
  /\ ~ProfileDelegates /\ web = ProfilesOther
  /\ req.acluser = "U2" /\ resp.status = 403

----------------------------------------------------------------------------
(* Authentication, checked under SpecAuthn                                 *)

Authenticated == req.m = "authn" /\ resp # NoResp

\* the user each mechanism stands for, read from the request
CookieUser ==
  IF req.cookie.present /\ req.cookie.valid THEN req.cookie.user ELSE NoStr
DigestUser ==
  IF \E u \in {<<"U1">>, <<"U2">>} :
       req.authorization = Digest(u, IssuedNonce, GoodSignature)
  THEN CHOOSE u \in {<<"U1">>, <<"U2">>} :
         req.authorization = Digest(u, IssuedNonce, GoodSignature)
  ELSE NoStr
CertificateUser ==
  IF \E i \in 1..Len(req.tls) : req.tls[i][2]
  THEN req.tls[CHOOSE i \in 1..Len(req.tls) :
                 req.tls[i][2] /\ \A j \in 1..(i - 1) : ~req.tls[j][2]][1]
  ELSE NoStr

\* C13: authn returns the cookie's user when it is non-empty, without
\* evaluating the Authorization header or the certificate; otherwise the
\* WebID-RSA user when a header is present and yields one; otherwise the
\* WebID-TLS user; otherwise the empty string; and it sets a Session
\* cookie in the WebID-TLS case only.
C13_AuthenticationOrder ==
  Authenticated =>
    /\ resp.status = 0
    /\ resp.user = IF CookieUser # NoStr THEN CookieUser
                   ELSE IF DigestUser # NoStr THEN DigestUser
                   ELSE CertificateUser
    /\ CookieUser # NoStr => ~resp.digest /\ ~resp.tlsSeen
    /\ resp.cookieSet <=>
         (CookieUser = NoStr /\ DigestUser = NoStr /\ CertificateUser # NoStr)

\* the same for requests whose Authorization header can be parsed
C13_OrderOnParsedHeaders ==
  (Authenticated /\ ~ParsePanics(req.authorization))
    => C13_AuthenticationOrder

\* no cookie user, a header that yields nobody, a certificate for U1
C13_Witness ==
  /\ Authenticated /\ CookieUser = NoStr
  /\ req.authorization = Digest(<<"U1">>, IssuedNonce, <<"no">>)
  /\ CertificateUser = <<"U1">>
  /\ resp.user = <<"U1">> /\ resp.cookieSet /\ resp.digest

\* C14: for every Authorization header value the parser returns normally
\* and authn yields a WebID or the empty string.
C14_AuthenticateNeverFails ==
  Authenticated =>
    /\ ~ParseDigestAuthorizationHeader(req.authorization).panicked
    /\ resp.status = 0

----------------------------------------------------------------------------
(* Preconditions and write statuses, checked under SpecCond                *)

\* the resource record and the quoted tag of the target before the request
Target(q) == pathInfo(fs, q.path)
TagBefore(q) == Quote(NewETag(fs, Target(q).File))
ExistedBefore(q) == Stat(fs, Target(q).File) \in {"dir", "file"}

\* the request passed the ACL gate of its verb
Authorised(q, a) == a.gate = 200

\* the If-Match header is present and no token of it is * or the tag
IfMatchFails(q) ==
  /\ Len(q.ifm) > 0
  /\ \A i \in 1..Len(q.ifm) : q.ifm[i] # Star /\ q.ifm[i] # TagBefore(q)

\* the If-None-Match header is present and every token is * or the tag
IfNoneMatchUnsatisfied(q) ==
  /\ Len(q.inm) > 0
  /\ \A i \in 1..Len(q.inm) : q.inm[i] = Star \/ q.inm[i] = TagBefore(q)

\* C15: an authorised PATCH, POST or PUT whose If-Match header is present
\* and holds neither * nor the current quoted tag is answered 412 and
\* changes nothing in the store.
C15_PreconditionSoundness ==
  [][(/\ req'.m \in AppendWriteVerbs
      /\ Authorised(req', resp')
      /\ IfMatchFails(req'))
       => (resp'.status = 412 /\ fs' = fs)]_vars

\* PUT of /dd/f with an obsolete tag, refused; the file keeps its triples
C15_Witness ==
  /\ req.m = "PUT" /\ req.path = DirFilePath /\ req.ifm = <<OldTag>>
  /\ req.link = "" /\ resp.gate = 200 /\ resp.status = 412
  /\ ReadFile(fs, DirFilePath) = DocData

\* C16: a request of any verb, DELETE and MKCOL included, whose If-Match
\* header names only tags different from the current one is answered 412
\* and removes or creates nothing.
C16_FailedIfMatchAnyVerb ==
  [][(/\ req'.m \in {"GET", "HEAD", "PATCH", "POST", "PUT", "DELETE", "MKCOL"}
      /\ Authorised(req', resp')
      /\ IfMatchFails(req'))
       => (resp'.status = 412 /\ fs' = fs)]_vars

C19_PutStatus ==
  [][(/\ req'.m = "PUT" /\ req'.link # LDPBasicContainer
      /\ Authorised(req', resp')
      /\ PrecondOK(fs, req', Target(req')))
       => /\ ~ExistedBefore(req') => resp'.status = 201
          /\ Stat(fs, Target(req').File) = "file" => resp'.status = 200]_vars

\* C20: an authorised POST of a text/turtle body to a URI that is not an
\* existing directory answers 201 when the resource did not exist and 200
\* when it did, and then stores the union of the prior triples and the
\* body's.
C20_PostNonContainer ==
  [][(/\ req'.m = "POST" /\ req'.ctype = "text/turtle"
      /\ Authorised(req', resp')
      /\ PrecondOK(fs, req', Target(req'))
      /\ Stat(fs, Target(req').File) # "dir")
       => /\ ~ExistedBefore(req') => resp'.status = 201
          /\ ExistedBefore(req')
               => /\ resp'.status = 200
                  /\ ReadFile(fs', Target(req').File)
                       = ReadFile(fs, Target(req').File) \cup req'.body]_vars

\* POST on the existing /dd/f: 200 and both triples stored
C20_Witness ==
  /\ req.m = "POST" /\ req.path = DirFilePath /\ resp.status = 200
  /\ ReadFile(fs, DirFilePath) = DocData \cup DocMore

----------------------------------------------------------------------------
(* Slug allocation, checked under SpecSlug                                 *)

SlugChild == <<DD, FF>>
Answered201(R) == {p \in Posters : R[p] # NoResp /\ R[p].status = 201}

\* the child the slug names in the container of the request q
SlugChildOf(q) == AppendSeg(AddSlash(NodeOf(q.path)), <<q.slug>>)

\* C18: of the POST requests carrying the same Slug to the same container,
\* in any interleaving, at most one is answered 201; every other one is
\* answered 409; and once the child exists no request changes the store.
C18_SlugInjectivity ==
  [][/\ \A C \in {DirPath, FilePath} :
          Cardinality({p \in Answered201(resp') : req'[p].r.path = C}) <= 1
     /\ \A p \in Posters :
          (resp[p] = NoResp /\ resp'[p] # NoResp)
            => /\ resp'[p].status \in {201, 409}
               /\ resp'[p].status = 409 => fs' = fs
               /\ Stat(fs, SlugChildOf(req[p].r)) \in {"dir", "file"} => fs' = fs]_vars

\* the part of C18 that holds: the same for the containers whose path
\* pathInfo ends in "/"
C18_InjectivityOnSlashedContainers ==
  [][/\ Cardinality({p \in Answered201(resp') : req'[p].r.path = DirPath}) <= 1
     /\ \A p \in Posters :
          (resp[p] = NoResp /\ resp'[p] # NoResp /\ req[p].r.path = DirPath)
            => /\ resp'[p].status \in {201, 409}
               /\ resp'[p].status = 409 => fs' = fs
               /\ Stat(fs, SlugChild) \in {"dir", "file"} => fs' = fs]_vars

\* a container created by one request, a leaf refused to another
C18_Witness ==
  \E p, q \in Posters :
    /\ resp[p] # NoResp /\ resp[p].status = 201
    /\ req[p].r.link = LDPBasicContainer
    /\ resp[q] # NoResp /\ resp[q].status = 409 /\ req[q].r.link = ""
    /\ Stat(fs, SlugChild) = "dir"

----------------------------------------------------------------------------
(* LDP container creation, checked under SpecLdp                           *)

\* the URI of the container C with the slug s and "/" appended
ChildURI(C, s) == URIOf(AddSlash(AppendSeg(pathInfo(fs, C).Path, <<s>>)))

\* an authorised POST for a container, on an existing container, with a
\* slug that names nothing yet
CreatesContainer(q, a) ==
  /\ q.m = "POST" /\ q.link = LDPBasicContainer
  /\ Authorised(q, a)
  /\ Stat(fs, Target(q).File) = "dir"
  /\ Stat(fs, AddSuffix(Target(q).File, q.slug)) = "ENOENT"

\* C21: an authorised POST on the existing container C with Slug s and
\* Link type ldp#BasicContainer, s naming nothing in C, answers 201 with
\* Location URI(C) + s + "/", creates a directory there and announces the
\* meta link Location + ".meta"; a GET of C that follows and answers 200
\* lists <C> ldp:contains <Location>.
C21_ContainerCreation ==
  [][/\ CreatesContainer(req', resp')
          => /\ resp'.status = 201
             /\ resp'.loc = ChildURI(req'.path, req'.slug)
             /\ Stat(fs', resp'.loc[2]) = "dir"
             /\ Stat(fs, resp'.loc[2]) = "ENOENT"
             /\ resp'.meta = URIOf(AddSuffix(resp'.loc[2], METASuffix))
     /\ (/\ req.m = "POST" /\ req.link = LDPBasicContainer
         /\ resp.status = 201
         /\ req'.m = "GET" /\ resp'.status = 200
         /\ pathInfo(fs, req'.path).URI = pathInfo(fs, req.path).URI)
          => <<NewResource(pathInfo(fs, req.path).URI), ldp_contains,
               NewResource(resp.loc)>> \in resp'.body]_vars

\* the container /dd/n/ created by a POST on /dd and listed by GET /dd/
C21_Witness ==
  /\ nw = 2 /\ req.m = "GET" /\ req.path = DirPath /\ resp.status = 200
  /\ <<NewResource(URIOf(DirPath)), ldp_contains,
       NewResource(URIOf(<<DD, <<"n">>, <<>>>>))>> \in resp.body
  /\ Stat(fs, <<DD, <<"n">>, <<>>>>) = "dir"

----------------------------------------------------------------------------
(* DELETE and MKCOL, checked under SpecStore                               *)

RootExists(F) == <<>> \in DOMAIN F /\ F[<<>>].k = "dir"

\* C22: a DELETE whose target has an empty relative path is answered 500
\* to an authorised requester and 401 or 403 to another, and removes
\* nothing; after every request the root container exists.
C22_RootNeverDeleted ==
  [][/\ (req'.m = "DELETE" /\ StrLen(Target(req').Path) = 0)
          => /\ fs' = fs
             /\ Authorised(req', resp') => resp'.status = 500
             /\ ~Authorised(req', resp')
                  => resp'.status \in {401, 403} /\ resp'.status = resp'.gate
     /\ RootExists(fs) => RootExists(fs')]_vars

\* DELETE / by the user the root ACL gives Write to
C22_Witness ==
  /\ req.m = "DELETE" /\ req.path = RootPath /\ req.user = "U1"
  /\ resp.gate = 200 /\ resp.status = 500
  /\ ReadFile(fs, << <<ACLSuffix>> >>) = RootAclDoc /\ RootExists(fs)

\* C23: a DELETE removes at most the node of its own target; every other
\* stored resource, the target's ACL and meta files included, is unchanged.
C23_DeleteDoesNotCascade ==
  [][req'.m = "DELETE"
       => /\ DOMAIN fs' \subseteq DOMAIN fs
          /\ \A n \in DOMAIN fs :
               n # NodeOf(Target(req').File) => (n \in DOMAIN fs' /\ fs'[n] = fs[n])]_vars

\* /dd/f is gone, its meta file is there and a GET of it answers 200
C23_Witness ==
  /\ nw = 2 /\ req.m = "GET" /\ req.path = FileMetaPath /\ resp.status = 200
  /\ Stat(fs, DirFilePath) = "ENOENT" /\ Stat(fs, FileMetaPath) = "file"

\* C24: an authorised MKCOL on a missing path creates the directory and
\* its missing ancestors and answers 201; on a path that is a file it
\* answers 409 and the store is unchanged.
C24_Mkcol ==
  [][(req'.m = "MKCOL" /\ Authorised(req', resp'))
       => /\ Stat(fs, Target(req').File) = "ENOENT"
               => /\ resp'.status = 201
                  /\ \A n \in Prefixes(NodeOf(Target(req').File)) :
                       IsDirNode(fs', n)
                  /\ \A n \in DOMAIN fs : n \in DOMAIN fs' /\ fs'[n] = fs[n]
          /\ Stat(fs, Target(req').File) = "file"
               => resp'.status = 409 /\ fs' = fs]_vars

\* MKCOL /dd/n/n where /dd/n is missing
C24_Witness ==
  /\ req.m = "MKCOL" /\ req.path = DeepPath /\ resp.status = 201
  /\ Stat(fs, DeepPath) = "dir" /\ Stat(fs, <<DD, <<"n">>>>) = "dir"

----------------------------------------------------------------------------
(* Unsupported media types, checked under SpecMime                         *)

Unparseable(mime) == mime # "" /\ mime # Multipart /\ mime \notin mimeParser

\* C25: a request whose Content-Type names a media type without body
\* parser, other than multipart/form-data, is answered 415 for every verb
\* but PUT, HEAD and OPTIONS, before the ACL is evaluated and with the
\* store unchanged; PUT, HEAD and OPTIONS are never answered 415.
C25_UnsupportedMediaType ==
  [][/\ (Unparseable(dataMime(req'.header))
          /\ req'.m \notin {"PUT", "HEAD", "OPTIONS"})
          => (resp'.status = 415 /\ resp'.gate = 0 /\ fs' = fs)
     /\ req'.m \in {"PUT", "HEAD", "OPTIONS"} => resp'.status # 415]_vars

\* a GET with Content-Type text/plain;charset=utf-8 by a requester the ACL
\* would refuse
C25_Witness ==
  /\ req.m = "GET" /\ req.header = <<"text/plain", "charset=utf-8">>
  /\ req.user = "" /\ req.path = DirFilePath
  /\ ReadFile(fs, DirAclPath) = DocWriteAppend
  /\ resp.status = 415

----------------------------------------------------------------------------
(* The lock discipline, checked under SpecLock                             *)

InHandler(p) == req[p].pc \in {"locked", "read"}

Mutating(p) == req[p].r.m \in {"PATCH", "POST", "PUT", "DELETE", "MKCOL"}

\* C26: a mutating handler past its lock call holds the lock keyed by the
\* on-disk path of its target, and two mutating handlers on the same URI
\* are never past their lock calls at the same time.
C26_LockDiscipline ==
  /\ \A p \in Lockers :
       (InHandler(p) /\ Mutating(p)) => FileKey(req[p].resource) \in req[p].held
  /\ \A p, q \in Lockers :
       (p # q /\ InHandler(p) /\ InHandler(q) /\ Mutating(p) /\ Mutating(q))
         => req[p].r.path # req[q].r.path

\* the answered PATCH and POST requests with a text/turtle body on /dd/f
Updaters ==
  {p \in Lockers : /\ req[p].r.m \in {"PATCH", "POST"}
                   /\ req[p].r.path = DirFilePath
                   /\ resp[p].status = 200}

\* the handlers that changed /dd/f or could have
Writers ==
  {p \in Lockers : /\ Mutating(p)
                   /\ req[p].r.path \in {DirFilePath, DirPath}
                   /\ resp[p].status < 400}

\* C27: when PATCH and POST requests with text/turtle bodies on the stored
\* document /dd/f of graph G have completed, and no other request wrote
\* it, the stored graph is G with all their bodies, whatever the
\* interleaving.
C27_LinearizableUpdate ==
  (/\ \A p \in Lockers : req[p].pc = "done"
   /\ Cardinality(Updaters) >= 2
   /\ Writers = Updaters)
    => ReadFile(fs, DirFilePath) = DocData \cup UNION {LockBody(p) : p \in Updaters}

\* a PATCH and a POST both answered 200, the second having waited for the
\* lock of the first
C27_Witness ==
  /\ req[1].r.m = "PATCH" /\ req[2].r.m = "POST"
  /\ req[1].pc = "done" /\ req[2].pc = "done"
  /\ Updaters = {1, 2}
  /\ ReadFile(fs, DirFilePath) = DocData \cup LockBody(1) \cup LockBody(2)

\* C28: a handler that has returned holds no lock, whatever its answer;
\* when every handler has returned no lock is held.
C28_LockRelease ==
  /\ \A p \in Lockers : req[p].pc = "done" => req[p].held = {}
  /\ (\A p \in Lockers : req[p].pc = "done")
       => ~\E p \in Lockers : Locked(lockKey(req[p].r.m, req[p].resource))

\* two handlers that took the lock and answered 412 and 500
C28_Witness ==
  /\ \A p \in Lockers : req[p].pc = "done" /\ req[p].held = {}
  /\ \E p, q \in Lockers :
       /\ req[p].took /\ resp[p].status = 412
       /\ req[q].took /\ resp[q].status = 500

----------------------------------------------------------------------------
(* pathInfo, checked under SpecPath                                        *)

\* the string s + suffix, for a URI or a path
PlusSuffix(s, sfx) ==
  IF Len(s) = 2 /\ s[1] = Base THEN <<Base, AddSuffix(s[2], sfx)>>
  ELSE AddSuffix(s, sfx)

\* the shadows of the answer a are those the claim gives for the
\* canonical URI a.URI
ShadowClosed(a) ==
  IF HasSuffix(a.Path, ACLSuffix)
  THEN /\ a.AclURI = a.URI /\ a.MetaURI = a.URI
       /\ a.AclFile = a.File /\ a.MetaFile = a.File
  ELSE IF HasSuffix(a.Path, METASuffix)
  THEN /\ a.AclURI = PlusSuffix(a.URI, ACLSuffix)
       /\ a.MetaURI = a.URI /\ a.MetaFile = a.File
  ELSE /\ a.AclURI = PlusSuffix(a.URI, ACLSuffix)
       /\ a.MetaURI = PlusSuffix(a.URI, METASuffix)
       /\ a.AclFile = PlusSuffix(a.File, ACLSuffix)
       /\ a.MetaFile = PlusSuffix(a.File, METASuffix)

\* C29: for every non-empty input pathInfo returns a record whose shadow
\* fields are closed as stated; the empty input yields an error.
C29_ShadowClosure ==
  [][/\ req' = NoURI => resp'.err
     /\ req' # NoURI => (~resp'.err /\ ~resp'.panic /\ ShadowClosed(resp'))]_vars

\* the part of C29 that holds: the closure of every record returned
C29_ClosureOfAnswers ==
  [][/\ req' = NoURI => resp'.err
     /\ (req' # NoURI /\ ~resp'.panic)
          => (~resp'.err /\ ShadowClosed(resp'))]_vars

EndsInSlash(s) ==
  IF Len(s) = 2 /\ s[1] = Base
  THEN s[2] = EmptyStr \/ HasSuffixSlash(s[2])
  ELSE HasSuffixSlash(s)

\* C30: an input naming a directory is answered with URI, Path and File
\* ending in "/" (the root with the URI Base + "/"); for a document or a
\* missing resource no "/" is appended; so the URI ends in "/" iff the
\* input named a directory or ended in "/".
C30_DirectoryCanonicalisation ==
  [][(req' # NoURI /\ ~resp'.panic)
       => /\ Stat(fs, req'[2]) = "dir"
               => /\ EndsInSlash(resp'.URI)
                  /\ NodeOf(req'[2]) # <<>>
                       => EndsInSlash(resp'.Path) /\ EndsInSlash(resp'.File)
          /\ Stat(fs, req'[2]) \in {"file", "ENOENT"}
               => resp'.Path = TrimLeftSlash(req'[2])
          /\ EndsInSlash(resp'.URI)
               <=> (Stat(fs, req'[2]) = "dir" \/ EndsInSlash(req'))]_vars

----------------------------------------------------------------------------
(* Container representations, checked under SpecList                       *)

\* C31: in the answer to a glob GET the triples of a matching child and
\* its containment triple are present only if the ACL walk for the child's
\* own URI grants Read to the requester.
C31_GlobChecksChild ==
  [][(isGlob(req'.path) /\ resp'.status = 200)
       => \A q \in Children(fs, NodeOf(globResource(fs, req'.path).File)) :
            LET c == entryInfo(fs, globResource(fs, req'.path), q) IN
            (\/ c.File \in resp'.appended
             \/ <<NewResource(globResource(fs, req'.path).URI), ldp_contains,
                  NewResource(c.URI)>> \in resp'.body)
              => Gate(fs, web, req', c, "Read").pass]_vars

ListingOf(q, a) ==
  /\ q.m = "GET" /\ ~isGlob(q.path) /\ q.accept = "" /\ a.status = 200
  /\ Stat(fs, q.path) = "dir"

AboutChild(F, q, t) ==
  \E n \in Children(F, NodeOf(q.path)) :
    t[1] = NewResource(entryInfo(F, pathInfo(F, q.path), n).URI)

\* C32: under PreferEmptyContainer the graph of a container holds no
\* triple whose subject is a child; without it every child carries its
\* type, mtime and size triples.
C32_PreferEmptyContainer ==
  [][ListingOf(req', resp')
       => /\ req'.prefer = PreferEmptyContainer
               => ~\E t \in resp'.body : AboutChild(fs, req', t)
          /\ req'.prefer = ""
               => \A n \in Children(fs, NodeOf(req'.path)) :
                    LET sub == NewResource(entryInfo(fs, pathInfo(fs, req'.path), n).URI)
                    IN /\ <<sub, stat_mtime, Literal>> \in resp'.body
                       /\ <<sub, stat_size, Literal>> \in resp'.body
                       /\ \E t \in resp'.body : t[1] = sub /\ t[2] = rdf_type]_vars

IndexPresent(F, q) ==
  {i \in 1..Len(q.dirIndex) :
     Stat(F, AddSuffix(pathInfo(F, q.path).File, q.dirIndex[i])) = "file"}

\* C33: a GET of a directory with text/html is answered 200 with the
\* contents of an index file whenever some entry of DirIndex names a file
\* of the directory; it is answered 303 only when none does.
C33_DirectoryIndex ==
  [][(/\ req'.m = "GET" /\ req'.accept = "text/html"
      /\ Len(req'.dirIndex) > 0
      /\ Stat(fs, req'.path) = "dir" /\ resp'.status \in {200, 303})
       => /\ IndexPresent(fs, req') # {}
               => /\ resp'.status = 200
                  /\ \E i \in IndexPresent(fs, req') :
                       resp'.served = AddSuffix(pathInfo(fs, req'.path).File,
                                                req'.dirIndex[i])
          /\ resp'.status = 303 => IndexPresent(fs, req') = {}]_vars

----------------------------------------------------------------------------
(* Secure tokens, checked under SpecToken                                  *)

\* C34: ValidateSecureToken accepts a token only until the time held in
\* its valid field (mint time plus duration); validated later, it is
\* answered with an error.
C34_TokenExpiry ==
  (resp.checked /\ ~resp.err) => resp.at <= resp.token.values.valid

----------------------------------------------------------------------------
(* The challenge header, checked under SpecChallenge                       *)

\* C35: an answer carries the WWW-Authenticate header iff its status is
\* 401; no 200 or 201 answer carries it.
C35_ChallengeOnlyWithRefusal ==
  resp.status # 0 => (resp.www <=> resp.status = 401)

----------------------------------------------------------------------------
(* The advertised ACL, checked under SpecStore                             *)

\* C36: for every answer to a request on a resource R, the URI of the
\* Link rel="acl" header names the file the ACL engine reads in iteration 0
\* of a later access check on R, also when the request created R.
C36_AdvertisedAclIsEnforced ==
  [][(/\ Prologue(fs, req') = 0
      /\ ~pathInfo(fs, req'.path).panic /\ ~pathInfo(fs', req'.path).panic
      /\ pathInfo(fs', req'.path).Exists)
       => linkAcl(fs, req') = URIOf(enforcedAcl(fs', req'.path))]_vars

----------------------------------------------------------------------------
(* Writers of one file, checked under SpecWriters                          *)

\* handler p is past its lock call in a request that goes on to create,
\* truncate or remove a file
Writing(p) ==
  /\ InHandler(p)
  /\ req[p].r.m \in {"PATCH", "POST", "PUT", "DELETE"}
  /\ methodSwitch(fs, web, req[p].r, req[p].resource, "uid").resp.status
       \in {200, 201}

\* C37: no two requests in flight have the same file open for writing or
\* removal, a POST creating a child of a container and a PUT, PATCH or
\* DELETE addressed to that child included.
C37_SingleWriter ==
  \A p, q \in Lockers :
    (p # q /\ Writing(p) /\ Writing(q))
      => openedFile(fs, req[p]) # openedFile(fs, req[q])

----------------------------------------------------------------------------
(* Progress, checked under SpecProgress                                    *)

\* task p has returned, or its slot is free, and it holds no lock
Returned(p) == req[p].pc \in {"done", "free"} /\ req[p].held = {}

----------------------------------------------------------------------------
(* LDP creation, checked under SpecCreate                                  *)

\* C39: every 201 answered to a POST on an existing container names in
\* Location a child that did not exist before the request, and no file or
\* directory that existed before the request is truncated or replaced,
\* with a Slug and without one.
C39_CreationNeverOverwrites ==
  [][(resp'.status = 201 /\ Stat(fs, req'.path) = "dir")
       => /\ resp'.loc # NoLoc
          /\ NodeOf(resp'.loc[2]) \notin DOMAIN fs
          /\ \A n \in DOMAIN fs : n \in DOMAIN fs' /\ fs'[n] = fs[n]]_vars

====
